---- MODULE Spec2Model ----
(***************************************************************************)
(* The offline-first synchronisation flow of the stock tracker app: the    *)
(* pending-order ledger (orders_to_sync) with capture, duplicate merge,    *)
(* flush and mark-as-synced (src/utils/upload.ts), and the product cache   *)
(* with its download / bulk replace / lookup (the stock tracker screen).   *)
(***************************************************************************)
EXTENDS Integers, Sequences, FiniteSets, Bags, TLC

(***************************************************************************)
(* Bounds of the model.                                                    *)
(***************************************************************************)
MaxInitRows == 1   \* rows in the ledger when the app starts
MaxCalls == 3      \* calls (captures, merges, flushes) started in one behaviour
MaxMerges == 2     \* whole cleanupDuplicateOrders calls run in a row
MaxLegacyRows == 3 \* rows of a ledger that may hold duplicates

(***************************************************************************)
(* JavaScript / SQL values.  Values of different JS types are kept apart   *)
(* by a tag in the string: "num:1" is the number 1, "str:1" the string     *)
(* '1', "bool:true" the boolean.                                           *)
(***************************************************************************)
NullStr == "<null>"            \* SQL NULL / JS null in a text column
Undefined == "<undefined>"     \* a property the object does not have
NoToken == "<no token>"        \* SecureStore.getItemAsync("token") === null

Savers == {"s1", "s2"}         \* concurrent saveOrderToSync calls in flight
\* text that the code searches or compares by characters is a sequence of characters
Barcodes == {<<"A">>, <<"B">>}
Quantities == {1, 2}

VARIABLES
    orders_to_sync,   \* the ledger table: a set of rows
    nextId,           \* AUTOINCREMENT of orders_to_sync.id
    clock,            \* CURRENT_TIMESTAMP
    product_data,     \* the product table as a statement on the connection reads it
    save,             \* per saveOrderToSync call: pc, order, existingOrder
    cleanup,          \* cleanupDuplicateOrders: pc, duplicates still to merge
    flush,            \* getPendingOrders -> uploadPendingOrders -> markOrdersAsSynced
    token,            \* SecureStore "token"
    requests,         \* bodies POSTed to /upload-orders
    started,          \* calls started so far
    ledger0,          \* history: the ledger at start
    captured,         \* history: quantity captured per natural key by finished calls
    txn,              \* the transaction open on the product screen's connection
    fetch,            \* fetchAllProducts / saveProductsToDatabase: pc and locals
    search,           \* searchBarcodeWithVariants: pc and locals
    allProducts,      \* React state: the product list of the screen
    dataSource,       \* React state: 'api' or 'database'
    batch,            \* uploadOrdersBatch: pc, orders, result
    merges,           \* history: ledger and return value of each finished cleanupDuplicateOrders
    sync_info,        \* the sync_info table: a set of rows
    reset,            \* clearAllSyncData: pc
    master_data,      \* the master_data table: a set of rows
    master,           \* saveMasterData: pc and locals
    download,         \* handleDownload: pc and locals
    columns,          \* the columns of product_data; none when the table does not exist
    schema,           \* addMissingColumns / createProductTable: pc and locals
    asyncStorage,     \* AsyncStorage: the item of each key
    secureStore,      \* SecureStore: the item of each key but "token"
    startup,          \* per startup screen: initializeApp's pc, redirectTo
    settings,         \* the settings screen: confirmRemoveLicense's pc and locals
    licenseScreen,    \* the license screen: initializeApp's pc and locals
    scanner,          \* the barcode scanner of the stock tracker screen
    timer             \* the progress intervals of the download page

ledgerVars == <<orders_to_sync, nextId, clock, save, cleanup, flush, token,
                requests, started, ledger0, captured>>

cacheVars == <<txn, fetch, search, allProducts, dataSource>>

sideVars == <<sync_info, reset, master_data, master, download>>

schemaVars == <<columns, schema>>

\* the state of the screens beside the tables and their operations
storageVars == <<asyncStorage, secureStore>>

screenVars == <<startup, settings, licenseScreen>>

appVars == <<schemaVars, storageVars, screenVars, scanner, timer>>

\* appVars but the progress timer of the download page
notTimer == <<schemaVars, storageVars, screenVars, scanner>>

\* appVars but the schema
notSchema == <<storageVars, screenVars, scanner, timer>>

moreVars == <<batch, merges, sideVars, appVars>>

\* everything but appVars
storeVars == <<ledgerVars, product_data, cacheVars, batch, merges, sideVars>>

vars == <<ledgerVars, product_data, cacheVars, moreVars>>

(***************************************************************************)
(* Rows of orders_to_sync.                                                 *)
(***************************************************************************)
Row(id, bc, qty, st) ==
    [id |-> id, supplier_code |-> "s1", userid |-> "u1", barcode |-> bc,
     quantity |-> qty, rate |-> 9, mrp |-> 19, order_date |-> "d1",
     created_at |-> 0, sync_status |-> st, is_manual_entry |-> "num:0",
     product_name |-> NullStr]

\* the order objects passed to saveOrderToSync
Orders ==
    {[supplier_code |-> "s1", userid |-> "u1", barcode |-> bc, quantity |-> q,
      rate |-> 10, mrp |-> 20, order_date |-> "d1"] :
        bc \in Barcodes, q \in Quantities}

NaturalKey(r) == <<r.barcode, r.order_date, r.userid, r.supplier_code>>

Keys == {NaturalKey(o) : o \in Orders}

Pending(L) == {r \in L : r.sync_status = "pending"}

PendingFor(L, k) == {r \in Pending(L) : NaturalKey(r) = k}

AtMostOnePendingPerKey(L) ==
    \A r1 \in Pending(L) : \A r2 \in Pending(L) :
        NaturalKey(r1) = NaturalKey(r2) => r1 = r2

RECURSIVE SumQty(_)
SumQty(S) ==
    IF S = {} THEN 0
    ELSE LET r == CHOOSE x \in S : TRUE IN r.quantity + SumQty(S \ {r})

\* ledgers the app may start with: ids 1..n, any mix of pending and synced rows
StartLedgers ==
    {L \in SUBSET {Row(i, bc, 1, st) : i \in 1..MaxInitRows, bc \in Barcodes,
                                         st \in {"pending", "synced"}} :
        /\ Cardinality(L) <= MaxInitRows
        /\ {r.id : r \in L} = 1..Cardinality(L)}

CleanStartLedgers == {L \in StartLedgers : AtMostOnePendingPerKey(L)}

(***************************************************************************)
(* saveOrderToSync                                                         *)
(***************************************************************************)
NoRow == [id |-> 0, quantity |-> 0]

\* SELECT id, quantity ... WHERE <natural key> AND sync_status = 'pending':
\* getFirstAsync returns one of the matching rows, or null
ExistingOrder(L, order) ==
    IF PendingFor(L, NaturalKey(order)) = {} THEN {NoRow}
    ELSE {[id |-> r.id, quantity |-> r.quantity] : r \in PendingFor(L, NaturalKey(order))}

\* mutant: the UPDATE stores the captured quantity instead of the accumulated one
UpdateById_Overwrite(L, existing, order, now) ==
    {IF r.id = existing.id
       THEN [r EXCEPT !.quantity = order.quantity,
                      !.rate = order.rate, !.mrp = order.mrp, !.created_at = now]
       ELSE r : r \in L}

\* UPDATE ... SET quantity = ?, rate = ?, mrp = ?, created_at = CURRENT_TIMESTAMP WHERE id = ?
UpdateById(L, existing, order, now) ==
    {IF r.id = existing.id
       THEN [r EXCEPT !.quantity = existing.quantity + order.quantity,
                      !.rate = order.rate, !.mrp = order.mrp, !.created_at = now]
       ELSE r : r \in L}

\* INSERT INTO orders_to_sync (supplier_code, userid, barcode, quantity, rate, mrp, order_date)
InsertOrder(L, id, order, now) ==
    L \cup {[id |-> id, supplier_code |-> order.supplier_code, userid |-> order.userid,
             barcode |-> order.barcode, quantity |-> order.quantity,
             rate |-> order.rate, mrp |-> order.mrp, order_date |-> order.order_date,
             created_at |-> now, sync_status |-> "pending",
             is_manual_entry |-> "num:0", product_name |-> NullStr]}

\* the storage layer's uniqueness constraint on the natural key of pending rows
UniqueConstraintFailed(L, order) == PendingFor(L, NaturalKey(order)) # {}

\* UPDATE ... SET quantity = quantity + ?, ... WHERE barcode = ? AND order_date = ?
\* AND userid = ? AND supplier_code = ?   (no sync_status filter)
UpdateByKey(L, order, now) ==
    {IF NaturalKey(r) = NaturalKey(order)
       THEN [r EXCEPT !.quantity = r.quantity + order.quantity,
                      !.rate = order.rate, !.mrp = order.mrp, !.created_at = now]
       ELSE r : r \in L}

IdleSave == [pc |-> "idle", order |-> CHOOSE o \in Orders : TRUE, existing |-> NoRow]

\* the call returns
Finished(p) ==
    /\ save' = [save EXCEPT ![p] = IdleSave]
    /\ captured' = [captured EXCEPT ![NaturalKey(save[p].order)] = @ + save[p].order.quantity]

\* the calls in flight are interchangeable: a new call takes the first free slot
FirstIdle(p) == \A q \in Savers : save[q].pc = "idle" => ~(q = "s1" /\ p = "s2")

saveOrderToSync_Lookup(p, order) ==
    /\ save[p].pc = "idle"
    /\ FirstIdle(p)
    /\ started < MaxCalls
    /\ started' = started + 1
    /\ \E e \in ExistingOrder(orders_to_sync, order) :
          save' = [save EXCEPT ![p] = [pc |-> IF e = NoRow THEN "insert" ELSE "update",
                                       order |-> order, existing |-> e]]
    /\ UNCHANGED <<orders_to_sync, nextId, clock, product_data, cleanup, flush,
                   token, requests, ledger0, captured>>
    /\ UNCHANGED cacheVars
    /\ UNCHANGED moreVars

saveOrderToSync_Update(p) ==
    /\ save[p].pc = "update"
    /\ clock' = clock + 1
    /\ orders_to_sync' = UpdateById(orders_to_sync, save[p].existing, save[p].order, clock')
    /\ Finished(p)
    /\ UNCHANGED <<nextId, product_data, cleanup, flush, token, requests, started, ledger0>>
    /\ UNCHANGED cacheVars
    /\ UNCHANGED moreVars

saveOrderToSync_Insert(p) ==
    /\ save[p].pc = "insert"
    /\ IF UniqueConstraintFailed(orders_to_sync, save[p].order)
         THEN /\ save' = [save EXCEPT ![p].pc = "catch"]
              /\ UNCHANGED <<orders_to_sync, nextId, clock, captured>>
         ELSE /\ clock' = clock + 1
              /\ orders_to_sync' = InsertOrder(orders_to_sync, nextId, save[p].order, clock')
              /\ nextId' = nextId + 1
              /\ Finished(p)
    /\ UNCHANGED <<product_data, cleanup, flush, token, requests, started, ledger0>>
    /\ UNCHANGED cacheVars
    /\ UNCHANGED moreVars

saveOrderToSync_Catch(p) ==
    /\ save[p].pc = "catch"
    /\ clock' = clock + 1
    /\ orders_to_sync' = UpdateByKey(orders_to_sync, save[p].order, clock')
    /\ Finished(p)
    /\ UNCHANGED <<nextId, product_data, cleanup, flush, token, requests, started, ledger0>>
    /\ UNCHANGED cacheVars
    /\ UNCHANGED moreVars

\* one whole call, no other operation running between its steps
saveOrderToSync(order) ==
    /\ \A p \in Savers : save[p].pc = "idle"
    /\ started < MaxCalls
    /\ started' = started + 1
    /\ clock' = clock + 1
    /\ \E e \in ExistingOrder(orders_to_sync, order) :
          IF e # NoRow
            THEN /\ orders_to_sync' = UpdateById(orders_to_sync, e, order, clock')
                 /\ nextId' = nextId
            ELSE IF UniqueConstraintFailed(orders_to_sync, order)
              THEN /\ orders_to_sync' = UpdateByKey(orders_to_sync, order, clock')
                   /\ nextId' = nextId
              ELSE /\ orders_to_sync' = InsertOrder(orders_to_sync, nextId, order, clock')
                   /\ nextId' = nextId + 1
    /\ captured' = [captured EXCEPT ![NaturalKey(order)] = @ + order.quantity]
    /\ UNCHANGED <<product_data, save, cleanup, flush, token, requests, ledger0>>
    /\ UNCHANGED cacheVars
    /\ UNCHANGED moreVars

(***************************************************************************)
(* cleanupDuplicateOrders                                                  *)
(***************************************************************************)
RECURSIVE Perms(_)
Perms(S) ==
    IF S = {} THEN {<<>>}
    ELSE UNION {{<<x>> \o t : t \in Perms(S \ {x})} : x \in S}

\* SELECT ... GROUP_CONCAT(id), SUM(quantity) ... WHERE sync_status = 'pending'
\* GROUP BY <natural key> HAVING COUNT(*) > 1; GROUP_CONCAT lists the ids of a
\* group in an order SQLite does not fix
DuplicateKeys(L) ==
    {k \in {NaturalKey(r) : r \in Pending(L)} : Cardinality(PendingFor(L, k)) > 1}

DuplicateGroups(L, k) ==
    {[key |-> k, order_ids |-> ids, total_quantity |-> SumQty(PendingFor(L, k))] :
        ids \in Perms({r.id : r \in PendingFor(L, k)})}

\* the possible results of the query: one group per duplicated key
DuplicateScans(L) ==
    LET K == DuplicateKeys(L)
        all == UNION {DuplicateGroups(L, k) : k \in K}
    IN  {{f[k] : k \in K} :
            f \in {g \in [K -> all] : \A k \in K : g[k] \in DuplicateGroups(L, k)}}

\* UPDATE orders_to_sync SET quantity = ? WHERE id = ?
SetQuantity(L, id, qty) ==
    {IF r.id = id THEN [r EXCEPT !.quantity = qty] ELSE r : r \in L}

\* mutant: nothing is deleted
DeleteIds_None(L, ids) == L

\* DELETE FROM orders_to_sync WHERE id IN (...)
DeleteIds(L, ids) == {r \in L : r.id \notin ids}

SeqRange(s) == {s[i] : i \in 1..Len(s)}

NoGroup == [key |-> <<>>, order_ids |-> <<>>, total_quantity |-> 0]

cleanupDuplicateOrders_Scan ==
    /\ cleanup.pc = "idle"
    /\ started < MaxCalls
    /\ started' = started + 1
    /\ \E S \in DuplicateScans(orders_to_sync) :
          cleanup' = [pc |-> "loop", duplicates |-> S, cur |-> NoGroup,
                      found |-> Cardinality(S)]
    /\ UNCHANGED <<orders_to_sync, nextId, clock, product_data, save, flush,
                   token, requests, ledger0, captured>>
    /\ UNCHANGED cacheVars
    /\ UNCHANGED moreVars

\* the call resumes: the head of the for loop (the UPDATE of the next group, or the
\* return when no group is left), or the DELETE of the current group
cleanupDuplicateOrders_Resume ==
    /\ cleanup.pc \in {"loop", "delete"}
    /\ IF cleanup.pc = "loop"
         THEN IF cleanup.duplicates = {}
                THEN /\ cleanup' = [cleanup EXCEPT !.pc = "idle", !.cur = NoGroup]
                     /\ UNCHANGED orders_to_sync
                ELSE \E d \in cleanup.duplicates :
                        /\ orders_to_sync' =
                              SetQuantity(orders_to_sync, Head(d.order_ids), d.total_quantity)
                        /\ cleanup' = [cleanup EXCEPT !.pc = "delete", !.cur = d,
                                                      !.duplicates = @ \ {d}]
         ELSE /\ orders_to_sync' =
                    DeleteIds(orders_to_sync, SeqRange(Tail(cleanup.cur.order_ids)))
              /\ cleanup' = [cleanup EXCEPT !.pc = "loop"]
    /\ UNCHANGED <<nextId, clock, product_data, save, flush, token, requests,
                   started, ledger0, captured>>
    /\ UNCHANGED cacheVars
    /\ UNCHANGED moreVars

\* the ledger after the for loop has merged the groups of S, one after the other
RECURSIVE MergeGroups(_, _)
MergeGroups(L, S) ==
    IF S = {} THEN L
    ELSE LET d == CHOOSE x \in S : TRUE
         IN  MergeGroups(DeleteIds(SetQuantity(L, Head(d.order_ids), d.total_quantity),
                                   SeqRange(Tail(d.order_ids))),
                         S \ {d})

\* a whole call with no other call between its statements; it returns duplicates.length
cleanupDuplicateOrders ==
    /\ cleanup.pc = "idle"
    /\ started < MaxMerges
    /\ started' = started + 1
    /\ \E S \in DuplicateScans(orders_to_sync) :
          /\ orders_to_sync' = MergeGroups(orders_to_sync, S)
          /\ cleanup' = [cleanup EXCEPT !.found = Cardinality(S)]
          /\ merges' = Append(merges, [rows |-> orders_to_sync', found |-> Cardinality(S)])
    /\ UNCHANGED <<appVars, nextId, clock, product_data, save, flush, token, requests,
                   ledger0, captured, cacheVars, batch, sideVars>>

(***************************************************************************)
(* getPendingOrders                                                        *)
(***************************************************************************)
\* o LEFT JOIN product_data p ON o.barcode = p.barcode: one result row per
\* matching product row, one row with p.* NULL when no product row matches
JoinRows(L, P) ==
    UNION {IF {p \in P : p.barcode = o.barcode} = {}
             THEN {[o |-> o, pcode |-> 0, pname |-> NullStr]}
             ELSE {[o |-> o, pcode |-> p.code, pname |-> p.name] :
                      p \in {q \in P : q.barcode = o.barcode}} :
           o \in Pending(L)}

\* o.*, COALESCE(o.product_name, p.name) as product_name; orders_to_sync has no
\* itemcode column, so the row object has no itemcode property
ResultRow(j) ==
    [id |-> j.o.id, supplier_code |-> j.o.supplier_code, userid |-> j.o.userid,
     barcode |-> j.o.barcode, quantity |-> j.o.quantity, rate |-> j.o.rate,
     mrp |-> j.o.mrp, order_date |-> j.o.order_date, created_at |-> j.o.created_at,
     sync_status |-> j.o.sync_status, is_manual_entry |-> j.o.is_manual_entry,
     product_name |-> IF j.o.product_name # NullStr THEN j.o.product_name ELSE j.pname,
     itemcode |-> Undefined]

\* ORDER BY o.created_at: every order of the rows that is sorted by created_at
RECURSIVE SortedByCreatedAt(_)
SortedByCreatedAt(J) ==
    IF J = {} THEN {<<>>}
    ELSE UNION {{<<x>> \o t : t \in SortedByCreatedAt(J \ {x})} :
                  x \in {y \in J : \A z \in J : y.o.created_at <= z.o.created_at}}

getPendingOrders(L, P) ==
    {[i \in 1..Len(s) |-> ResultRow(s[i])] : s \in SortedByCreatedAt(JoinRows(L, P))}

(***************************************************************************)
(* uploadPendingOrders                                                     *)
(***************************************************************************)
\* order.is_manual_entry === 1 || order.is_manual_entry === '1' || order.is_manual_entry === true
isManualEntry(order) == order.is_manual_entry \in {"num:1", "str:1", "bool:true"}

\* the text value as it is, null included
OrEmpty_AsIs(x) == x

\* x || '' for a text value
OrEmpty(x) == IF x \in {NullStr, Undefined, ""} THEN "" ELSE x

formattedOrder(order) ==
    [supplier_code |-> order.supplier_code, user_id |-> order.userid,
     barcode |-> order.barcode, quantity |-> order.quantity, rate |-> order.rate,
     mrp |-> order.mrp, order_date |-> order.order_date,
     created_at |-> order.created_at, taxcode |-> "NT",
     code |-> IF isManualEntry(order) THEN order.barcode ELSE order.itemcode,
     item |-> IF isManualEntry(order) THEN OrEmpty(order.product_name) ELSE "",
     ioflag |-> IF isManualEntry(order) THEN -100 ELSE 0]

\* orders.map(...)
formattedOrders(orders) == [i \in 1..Len(orders) |-> formattedOrder(orders[i])]

\* the body of api.post("/upload-orders", ...)
UploadRequest(orders) ==
    [orders |-> formattedOrders(orders), total_orders |-> Len(formattedOrders(orders))]

\* s.includes(sub)
Includes(s, sub) ==
    \E i \in 1..(Len(s) - Len(sub) + 1) : SubSeq(s, i, i + Len(sub) - 1) = sub

TextSuccess == <<"s", "u", "c", "c", "e", "s", "s">>

\* bodies of a 2xx response (res.data): an object with the fields the code reads,
\* a string, or nothing
ResponseObjects ==
    [type : {"object"}, success : {"bool:true", "bool:false", Undefined},
     status : {"str:success", "str:error", Undefined},
     message : {"str:saved", Undefined}, uploaded_count : {0, 7}, text : {<<>>}]

ResponseStrings ==
    [type : {"string"}, success : {Undefined}, status : {Undefined},
     message : {Undefined}, uploaded_count : {0},
     text : {<<>>, TextSuccess, <<"u", "n">> \o TextSuccess \o <<"f", "u", "l">>,
             <<"O", "K">>, <<"f", "a", "i", "l", "e", "d">>}]

NoData ==
    [type |-> "null", success |-> Undefined, status |-> Undefined,
     message |-> Undefined, uploaded_count |-> 0, text |-> <<>>]

ResponseData == ResponseObjects \cup ResponseStrings \cup {NoData}

\* if (res.data)
Truthy(data) == data.type = "object" \/ (data.type = "string" /\ data.text # <<>>)

\* x || fallback, for a text and for a number
OrText(x, fallback) == IF x \in {Undefined, NullStr, ""} THEN fallback ELSE x

OrNum(x, fallback) == IF x = 0 THEN fallback ELSE x

\* the value uploadPendingOrders returns for a 2xx response with body data to a
\* request of n orders
UploadResult(data, n) ==
    IF Truthy(data) /\ data.success = "bool:true"
      THEN [threw |-> FALSE, success |-> TRUE,
            message |-> OrText(data.message, "Orders uploaded successfully"),
            uploaded_count |-> OrNum(data.uploaded_count, n)]
    ELSE IF Truthy(data) /\ data.status = "str:success"
      THEN [threw |-> FALSE, success |-> TRUE,
            message |-> OrText(data.message, "Orders uploaded successfully"),
            uploaded_count |-> n]
    ELSE IF Truthy(data) /\ data.type = "string" /\ Includes(data.text, TextSuccess)
      THEN [threw |-> FALSE, success |-> TRUE, message |-> "<res.data>",
            uploaded_count |-> n]
    ELSE [threw |-> FALSE, success |-> TRUE, message |-> "Orders processed by server",
          uploaded_count |-> n]

\* errors api.post rejects with: error.response.status (0: no response),
\* error.code, error.response.data.message, error.message
RequestErrors ==
    [status : {0}, code : {"NETWORK_ERROR", "ECONNABORTED", Undefined},
     dataMessage : {Undefined}, message : {"timeout of 30000ms exceeded", ""}]
    \cup
    [status : {400, 401, 404, 500}, code : {"ERR_BAD_RESPONSE"},
     dataMessage : {"Server says no", Undefined},
     message : {"Request failed"}]

NoError == [status |-> 0, code |-> Undefined, dataMessage |-> Undefined, message |-> ""]

\* the catch block: the error uploadPendingOrders throws
UploadError(error) ==
    [threw |-> TRUE, success |-> FALSE, uploaded_count |-> 0,
     message |->
        IF error.status = 401 THEN "Authentication failed. Please login again."
        ELSE IF error.status = 400
          THEN IF error.dataMessage = Undefined
                 THEN "Invalid data format: Check your data"
                 ELSE "Invalid data format: <message>"
        ELSE IF error.code = "NETWORK_ERROR"
          THEN "Network error. Please check your connection."
        ELSE IF error.dataMessage # Undefined THEN error.dataMessage
        ELSE OrText(error.message, "Upload failed")]

TokenMissing ==
    [status |-> 0, code |-> Undefined, dataMessage |-> Undefined,
     message |-> "Authentication token not found. Please login again."]

ServerReplies ==
    {[ok |-> TRUE, data |-> d, error |-> NoError] : d \in ResponseData}
    \cup {[ok |-> FALSE, data |-> NoData, error |-> e] : e \in RequestErrors}

NoReply == [ok |-> FALSE, data |-> NoData, error |-> NoError]

NoResult == [threw |-> FALSE, success |-> FALSE, message |-> "", uploaded_count |-> 0]

IdleFlush == [pc |-> "idle", orders |-> <<>>, reply |-> NoReply, result |-> NoResult]

\* the flush: the caller reads the pending orders, uploads them and, when the
\* upload reports success, marks the orders as synced
flush_getPendingOrders ==
    /\ flush.pc = "idle"
    /\ started < MaxCalls
    /\ started' = started + 1
    /\ \E orders \in getPendingOrders(orders_to_sync, product_data) :
          flush' = [pc |-> "token", orders |-> orders, reply |-> NoReply,
                    result |-> NoResult]
    /\ UNCHANGED <<orders_to_sync, nextId, clock, product_data, save, cleanup,
                   token, requests, ledger0, captured>>
    /\ UNCHANGED cacheVars
    /\ UNCHANGED moreVars

\* const token = await SecureStore.getItemAsync("token"); if (!token) throw ...
\* mutant: the request goes out whatever the token is
uploadPendingOrders_Token_Unchecked ==
    /\ flush.pc = "token"
    /\ flush' = [flush EXCEPT !.pc = "post"]
    /\ UNCHANGED <<orders_to_sync, nextId, clock, product_data, save, cleanup,
                   token, requests, started, ledger0, captured>>
    /\ UNCHANGED cacheVars
    /\ UNCHANGED moreVars

uploadPendingOrders_Token ==
    /\ flush.pc = "token"
    /\ flush' = IF token = NoToken
                  THEN [IdleFlush EXCEPT !.result = UploadError(TokenMissing)]
                  ELSE [flush EXCEPT !.pc = "post"]
    /\ UNCHANGED <<orders_to_sync, nextId, clock, product_data, save, cleanup,
                   token, requests, started, ledger0, captured>>
    /\ UNCHANGED cacheVars
    /\ UNCHANGED moreVars

\* api.post("/upload-orders", { orders: formattedOrders, total_orders: ... })
uploadPendingOrders_Post ==
    /\ flush.pc = "post"
    /\ requests' = Append(requests, UploadRequest(flush.orders))
    /\ flush' = [flush EXCEPT !.pc = "wait"]
    /\ UNCHANGED <<orders_to_sync, nextId, clock, product_data, save, cleanup,
                   token, started, ledger0, captured>>
    /\ UNCHANGED cacheVars
    /\ UNCHANGED moreVars

\* mutant: the coordinator marks the ledger itself when the server answers
uploadPendingOrders_Response_Marks(R) ==
    /\ flush.pc = "wait"
    /\ \E reply \in R :
          LET result == IF reply.ok THEN UploadResult(reply.data, Len(flush.orders))
                        ELSE UploadError(reply.error)
          IN  /\ flush' = IF ~result.threw /\ result.success
                             THEN [flush EXCEPT !.pc = "mark", !.reply = reply,
                                                !.result = result]
                             ELSE [IdleFlush EXCEPT !.result = result]
              /\ orders_to_sync' =
                    {IF \E i \in 1..Len(flush.orders) : flush.orders[i].id = r.id
                       THEN [r EXCEPT !.sync_status = "synced"] ELSE r :
                     r \in orders_to_sync}
    /\ UNCHANGED <<nextId, clock, product_data, save, cleanup,
                   token, requests, started, ledger0, captured>>
    /\ UNCHANGED cacheVars
    /\ UNCHANGED moreVars

\* the request settles with one of the replies R: the result is returned, or the
\* catch block throws
uploadPendingOrders_Response(R) ==
    /\ flush.pc = "wait"
    /\ \E reply \in R :
          LET result == IF reply.ok THEN UploadResult(reply.data, Len(flush.orders))
                        ELSE UploadError(reply.error)
          IN  flush' = IF ~result.threw /\ result.success
                         THEN [flush EXCEPT !.pc = "mark", !.reply = reply,
                                            !.result = result]
                         ELSE [IdleFlush EXCEPT !.result = result]
    /\ UNCHANGED <<orders_to_sync, nextId, clock, product_data, save, cleanup,
                   token, requests, started, ledger0, captured>>
    /\ UNCHANGED cacheVars
    /\ UNCHANGED moreVars

\* mutant: the pending rows are deleted
MarkSynced_Deletes(L) == {r \in L : r.sync_status # "pending"}

\* mutant: the two parameters of the UPDATE swapped
MarkSynced_Swapped(L) ==
    {IF r.sync_status = "synced" THEN [r EXCEPT !.sync_status = "pending"] ELSE r : r \in L}

\* UPDATE orders_to_sync SET sync_status = 'synced' WHERE sync_status = 'pending'
MarkSynced(L) ==
    {IF r.sync_status = "pending" THEN [r EXCEPT !.sync_status = "synced"] ELSE r : r \in L}

markOrdersAsSynced ==
    /\ flush.pc = "mark"
    /\ orders_to_sync' = MarkSynced(orders_to_sync)
    /\ flush' = [IdleFlush EXCEPT !.result = flush.result]
    /\ UNCHANGED <<nextId, clock, product_data, save, cleanup, token, requests,
                   started, ledger0, captured>>
    /\ UNCHANGED cacheVars
    /\ UNCHANGED moreVars

(***************************************************************************)
(* uploadOrdersBatch                                                       *)
(***************************************************************************)
NoBatchResult == [threw |-> FALSE, message |-> ""]

IdleBatch == [pc |-> "idle", orders |-> <<>>, result |-> NoBatchResult]

\* SecureStore.getItemAsync("token"); no token: the Error is thrown, logged by
\* the catch block and thrown again
uploadOrdersBatch_Token ==
    /\ batch.pc = "token"
    /\ batch' = IF token = NoToken
                  THEN [IdleBatch EXCEPT !.result =
                           [threw |-> TRUE, message |-> "Authentication required"]]
                  ELSE [batch EXCEPT !.pc = "post"]
    /\ UNCHANGED <<appVars, ledgerVars, product_data, cacheVars, merges, sideVars>>

\* api.post("/api/orders/batch", { orders: orders, sync_timestamp: ... })
uploadOrdersBatch_Post ==
    /\ batch.pc = "post"
    /\ requests' = Append(requests, [url |-> "/api/orders/batch", orders |-> batch.orders,
                                     sync_timestamp |-> clock])
    /\ batch' = [batch EXCEPT !.pc = "wait"]
    /\ UNCHANGED <<appVars, orders_to_sync, nextId, clock, save, cleanup, flush, token,
                   started, ledger0, captured, product_data, cacheVars, merges, sideVars>>

\* the request settles with one of the replies R: response.data is returned, or
\* the error is thrown again as it is
uploadOrdersBatch_Response(R) ==
    /\ batch.pc = "wait"
    /\ \E reply \in R :
          batch' = [IdleBatch EXCEPT !.result =
                       IF reply.ok THEN NoBatchResult
                       ELSE [threw |-> TRUE, message |-> reply.error.message]]
    /\ UNCHANGED <<appVars, ledgerVars, product_data, cacheVars, merges, sideVars>>

(***************************************************************************)
(* clearAllSyncData                                                        *)
(***************************************************************************)
\* DELETE FROM orders_to_sync
clearAllSyncData_Orders ==
    /\ reset = "idle"
    /\ started < MaxCalls
    /\ started' = started + 1
    /\ orders_to_sync' = {}
    /\ reset' = "sync_info"
    /\ UNCHANGED <<appVars, nextId, clock, save, cleanup, flush, token, requests, ledger0,
                   captured, product_data, cacheVars, batch, merges,
                   sync_info, master_data, master, download>>

\* DELETE FROM sync_info
clearAllSyncData_Info ==
    /\ reset = "sync_info"
    /\ sync_info' = {}
    /\ reset' = "idle"
    /\ UNCHANGED <<appVars, ledgerVars, product_data, cacheVars, batch, merges,
                   master_data, master, download>>

\* saveMasterData is not running; data and result are those of the last call
IdleMaster == [pc |-> "idle", data |-> <<>>, i |-> 1, before |-> {}, result |-> "none",
               runs |-> 0]

\* handleDownload is not running; before is sync_info when the last run began,
\* outcome how far that run came, lastSynced the value on the page (no element
\* for null)
NoDownloadResult == [masterData |-> Undefined, productData |-> Undefined]

IdleDownload == [pc |-> "idle", before |-> {}, outcome |-> "none",
                 result |-> NoDownloadResult, lastSynced |-> {}, runs |-> 0]

\* the variables of the operations beside the ledger and the product cache, at start
InitMore ==
    /\ batch = IdleBatch
    /\ merges = <<>>
    /\ sync_info = {}
    /\ reset = "idle"
    /\ master_data = {}
    /\ master = IdleMaster
    /\ download = IdleDownload

(***************************************************************************)
(* Schema evolution of product_data on the stock tracker screen:           *)
(* addMissingColumns and createProductTable.                               *)
(***************************************************************************)
MaxSchemaRuns == 2   \* runs of addMissingColumns

\* the columns every product_data table has had
BaseColumns ==
    {"code", "name", "barcode", "quantity", "salesprice", "bmrp", "cost",
     "batch_supplier", "e_cost", "e_qty"}

\* requiredColumns, in the order of the loop
requiredColumns ==
    <<"category", "product", "brand", "unit", "taxcode", "productcode",
      "secondprice", "thirdprice", "expirydate">>

RequiredNames == {requiredColumns[i] : i \in 1..Len(requiredColumns)}

\* the columns of CREATE TABLE IF NOT EXISTS product_data
CreatedColumns == BaseColumns \cup RequiredNames

\* the tables an installation may hold: none, or the base columns and any of
\* the later ones
StartColumns == {{}} \cup {BaseColumns \cup later : later \in SUBSET RequiredNames}

\* addMissingColumns is not running; before and issued are those of the last
\* run: the columns when it began, the ADD COLUMN statements it ran
IdleSchema == [pc |-> "idle", existingColumns |-> {}, i |-> 1, before |-> {},
               issued |-> <<>>, runs |-> 0]

\* mutant: every required column is taken to be missing
IsMissing_Always(existingColumns, name) == TRUE

\* !existingColumns.includes(col.name)
IsMissing(existingColumns, name) == name \notin existingColumns

addMissingColumns_Call ==
    /\ schema.pc = "idle"
    /\ schema.runs < MaxSchemaRuns
    /\ schema' = [schema EXCEPT !.pc = "table_info", !.before = columns,
                                !.issued = <<>>, !.runs = schema.runs + 1]
    /\ UNCHANGED <<storeVars, columns, notSchema>>

\* PRAGMA table_info(product_data): no rows when the table does not exist
addMissingColumns_TableInfo ==
    /\ schema.pc = "table_info"
    /\ schema' = [schema EXCEPT !.pc = "loop", !.existingColumns = columns, !.i = 1]
    /\ UNCHANGED <<storeVars, columns, notSchema>>

\* one turn of the loop; ALTER TABLE ... ADD COLUMN throws when the table does
\* not exist or has the column, and the catch goes to createProductTable
addMissingColumns_Column ==
    /\ schema.pc = "loop"
    /\ schema.i <= Len(requiredColumns)
    /\ LET name == requiredColumns[schema.i]
       IN  IF IsMissing(schema.existingColumns, name)
           THEN IF columns = {} \/ name \in columns
                THEN /\ schema' = [schema EXCEPT !.pc = "create",
                                                 !.issued = Append(schema.issued, name)]
                     /\ UNCHANGED columns
                ELSE /\ columns' = columns \cup {name}
                     /\ schema' = [schema EXCEPT !.i = schema.i + 1,
                                                 !.issued = Append(schema.issued, name)]
           ELSE /\ schema' = [schema EXCEPT !.i = schema.i + 1]
                /\ UNCHANGED columns
    /\ UNCHANGED <<storeVars, notSchema>>

\* the loop is over
addMissingColumns_Return ==
    /\ schema.pc = "loop"
    /\ schema.i > Len(requiredColumns)
    /\ schema' = [schema EXCEPT !.pc = "idle"]
    /\ UNCHANGED <<storeVars, columns, notSchema>>

\* CREATE TABLE IF NOT EXISTS product_data (...)
createProductTable ==
    /\ schema.pc = "create"
    /\ columns' = IF columns = {} THEN CreatedColumns ELSE columns
    /\ schema' = [schema EXCEPT !.pc = "idle"]
    /\ UNCHANGED <<storeVars, notSchema>>

\* the screens beside the tables, at start, on an up-to-date installation
(***************************************************************************)
(* AsyncStorage and SecureStore, and the two startup screens (Index with   *)
(* the license check, Index with the auth check only).                     *)
(***************************************************************************)
NoItem == "<no item>"   \* getItem / getItemAsync resolve to null

AsyncKeys ==
    {"licenseActivated", "licenseKey", "deviceId", "device_hardware_id",
     "customerName", "projectName", "clientId"}

SecureKeys == {"paired_ip", "authToken", "userId"}

\* a device that was never activated, paired or logged in
EmptyAsyncStorage == [k \in AsyncKeys |-> NoItem]

EmptySecureStore == [k \in SecureKeys |-> NoItem]

StartupScreens == {"license_first", "auth_only"}

\* the screen is mounted: redirectTo is null and the effect has not run
MountedStartup == [pc |-> "initDatabase", target |-> NoItem, redirectTo |-> NoItem]

\* await initDatabase() resolves
initializeApp_InitDatabase(s) ==
    /\ startup[s].pc = "initDatabase"
    /\ startup' = [startup EXCEPT
                      ![s].pc = IF s = "license_first" THEN "license" ELSE "auth"]
    /\ UNCHANGED <<storeVars, schemaVars, storageVars, settings, licenseScreen,
                   scanner, timer>>

\* await initDatabase() throws
initializeApp_InitDatabaseThrows(s) ==
    /\ startup[s].pc = "initDatabase"
    /\ startup' = [startup EXCEPT ![s].pc = "catch"]
    /\ UNCHANGED <<storeVars, schemaVars, storageVars, settings, licenseScreen,
                   scanner, timer>>

\* licenseActivated = await AsyncStorage.getItem("licenseActivated"); when it
\* is not "true": setTimeout(() => setRedirectTo("/(auth)/license"), 2000)
initializeApp_License ==
    /\ startup["license_first"].pc = "license"
    /\ startup' = [startup EXCEPT
                      !["license_first"] =
                          IF asyncStorage["licenseActivated"] # "true"
                          THEN [@ EXCEPT !.pc = "timeout", !.target = "/(auth)/license"]
                          ELSE [@ EXCEPT !.pc = "auth"]]
    /\ UNCHANGED <<storeVars, schemaVars, storageVars, settings, licenseScreen,
                   scanner, timer>>

\* ip and token are read; setTimeout(() => setRedirectTo(ip && token ?
\* "/(main)/" : "/(auth)/pairing"), 2000)
initializeApp_Auth(s) ==
    /\ startup[s].pc = "auth"
    /\ startup' = [startup EXCEPT
                      ![s].pc = "timeout",
                      ![s].target = IF secureStore["paired_ip"] # NoItem /\ token # NoToken
                                      THEN "/(main)/" ELSE "/(auth)/pairing"]
    /\ UNCHANGED <<storeVars, schemaVars, storageVars, settings, licenseScreen,
                   scanner, timer>>

\* catch (error): the first screen sets a timer for "/(auth)/license", the
\* second only logs the error
initializeApp_Catch(s) ==
    /\ startup[s].pc = "catch"
    /\ startup' = [startup EXCEPT
                      ![s] = IF s = "license_first"
                               THEN [@ EXCEPT !.pc = "timeout", !.target = "/(auth)/license"]
                               ELSE [@ EXCEPT !.pc = "returned"]]
    /\ UNCHANGED <<storeVars, schemaVars, storageVars, settings, licenseScreen,
                   scanner, timer>>

\* the timer fires: setRedirectTo(target)
initializeApp_Timeout(s) ==
    /\ startup[s].pc = "timeout"
    /\ startup' = [startup EXCEPT ![s].pc = "returned", ![s].redirectTo = startup[s].target]
    /\ UNCHANGED <<storeVars, schemaVars, storageVars, settings, licenseScreen,
                   scanner, timer>>

(***************************************************************************)
(* The settings screen: confirmRemoveLicense; and the license screen's     *)
(* handleActivate.                                                         *)
(***************************************************************************)
\* AsyncStorage of an activated device
ActivatedAsyncStorage ==
    [EmptyAsyncStorage EXCEPT !["licenseActivated"] = "true", !["licenseKey"] = "LK-1",
                              !["deviceId"] = "device-1", !["customerName"] = "Customer",
                              !["projectName"] = "tasktracker", !["clientId"] = "client-1"]

\* what the POST to the logout API comes to
LogoutReplies == {"ok_success", "ok_failure", "not_ok", "invalid_json", "network_error"}

IdleSettings == [pc |-> "idle", removed |-> FALSE]

\* the keys of AsyncStorage.multiRemove([...])
RemovedKeys ==
    {"licenseActivated", "licenseKey", "deviceId", "device_hardware_id",
     "customerName", "projectName", "clientId"}

\* SecureStore.deleteItemAsync("authToken"); SecureStore.deleteItemAsync("userId")
DeleteAuthItems(S, t) ==
    [store |-> [S EXCEPT !["authToken"] = NoItem, !["userId"] = NoItem], token |-> t]

\* Remove is pressed: licenseInfo was loaded from customerName, licenseKey and
\* deviceId, and the POST is sent
confirmRemoveLicense_Call ==
    /\ settings.pc = "idle"
    /\ ~settings.removed
    /\ asyncStorage["customerName"] # NoItem
    /\ asyncStorage["licenseKey"] # NoItem
    /\ asyncStorage["deviceId"] # NoItem
    /\ settings' = [settings EXCEPT !.pc = "fetch"]
    /\ UNCHANGED <<storeVars, schemaVars, storageVars, startup, licenseScreen,
                   scanner, timer>>

\* the request settles: only response.ok with data.success goes on to clear
confirmRemoveLicense_Response(reply) ==
    /\ settings.pc = "fetch"
    /\ settings' = [settings EXCEPT !.pc = IF reply = "ok_success" THEN "clear" ELSE "idle"]
    /\ UNCHANGED <<storeVars, schemaVars, storageVars, startup, licenseScreen,
                   scanner, timer>>

\* await AsyncStorage.multiRemove([...])
confirmRemoveLicense_Clear ==
    /\ settings.pc = "clear"
    /\ asyncStorage' = [k \in AsyncKeys |->
                           IF k \in RemovedKeys THEN NoItem ELSE asyncStorage[k]]
    /\ settings' = [settings EXCEPT !.pc = "deleteAuth"]
    /\ UNCHANGED <<storeVars, schemaVars, secureStore, startup, licenseScreen,
                   scanner, timer>>

\* the auth items are deleted, the toast is shown and the screen is replaced
\* by the license screen
confirmRemoveLicense_DeleteAuth ==
    /\ settings.pc = "deleteAuth"
    /\ secureStore' = DeleteAuthItems(secureStore, token).store
    /\ token' = DeleteAuthItems(secureStore, token).token
    /\ settings' = [settings EXCEPT !.pc = "idle", !.removed = TRUE]
    /\ UNCHANGED <<orders_to_sync, nextId, clock, save, cleanup, flush, requests,
                   started, ledger0, captured>>
    /\ UNCHANGED <<product_data, cacheVars, batch, merges, sideVars, schemaVars,
                   asyncStorage, startup, licenseScreen, scanner, timer>>

\* the license screen: the key is accepted and the license items are stored
handleActivate ==
    /\ asyncStorage["licenseActivated"] # "true"
    /\ settings.pc = "idle"
    /\ asyncStorage' = [asyncStorage EXCEPT
                           !["licenseActivated"] = "true", !["licenseKey"] = "LK-1",
                           !["deviceId"] = "device-1", !["customerName"] = "Customer",
                           !["projectName"] = "tasktracker", !["clientId"] = "client-1"]
    /\ UNCHANGED <<storeVars, schemaVars, secureStore, screenVars, scanner, timer>>

(***************************************************************************)
(* The license screen: the check of a stored license when it is mounted.   *)
(***************************************************************************)
DeviceIds == {"device-1", "device-2"}

\* what the GET of the license API comes to: the device is listed under a
\* customer, customers are listed but not the device, no customer is listed,
\* the response is not ok or says success: false, fetch or json() throws
RegistrationOutcomes ==
    {"found", "not_found", "no_customers", "failed_response", "network_error"}

\* the outcomes in which the server said that the device is not registered
NotRegistered == {"not_found", "no_customers"}

\* checkDeviceRegistration(deviceIdToCheck): {found: true, customer, projectName}
\* for a listed device, {found: false} on every other path, the catch included
checkDeviceRegistration(outcome) ==
    IF outcome = "found"
      THEN [found |-> TRUE, license_key |-> "LK-1", customer_name |-> "Customer",
            projectName |-> "tasktracker", client_id |-> "client-1"]
      ELSE [found |-> FALSE, license_key |-> NoItem, customer_name |-> NoItem,
            projectName |-> NoItem, client_id |-> NoItem]

\* the screen is mounted and its effect has not run
MountedLicenseScreen ==
    [pc |-> "mounted", id |-> NoItem, outcome |-> NoItem,
     registrationCheck |-> checkDeviceRegistration("network_error")]

\* initializeApp up to the local check: getDeviceId(), getDeviceName(),
\* getItem("licenseActivated"), getItem("deviceId")
license_initializeApp_Local(id) ==
    /\ licenseScreen.pc = "mounted"
    /\ licenseScreen' =
          [licenseScreen EXCEPT
              !.id = id,
              !.pc = IF asyncStorage["licenseActivated"] = "true"
                        /\ asyncStorage["deviceId"] = id
                       THEN "check" ELSE "activation"]
    /\ UNCHANGED <<storeVars, schemaVars, storageVars, startup, settings, scanner, timer>>

\* const registrationCheck = await checkDeviceRegistration(id)
license_initializeApp_Check(outcome) ==
    /\ licenseScreen.pc = "check"
    /\ LET registrationCheck == checkDeviceRegistration(outcome)
       IN  licenseScreen' =
              [licenseScreen EXCEPT
                  !.outcome = outcome,
                  !.registrationCheck = registrationCheck,
                  !.pc = IF registrationCheck.found THEN "store" ELSE "remove"]
    /\ UNCHANGED <<storeVars, schemaVars, storageVars, startup, settings, scanner, timer>>

\* the six setItem calls, then the redirect to the pairing screen
license_initializeApp_Store ==
    /\ licenseScreen.pc = "store"
    /\ asyncStorage' =
          [asyncStorage EXCEPT
              !["licenseActivated"] = "true",
              !["licenseKey"] = licenseScreen.registrationCheck.license_key,
              !["deviceId"] = licenseScreen.id,
              !["customerName"] = licenseScreen.registrationCheck.customer_name,
              !["projectName"] = licenseScreen.registrationCheck.projectName,
              !["clientId"] = licenseScreen.registrationCheck.client_id]
    /\ licenseScreen' = [licenseScreen EXCEPT !.pc = "pairing"]
    /\ UNCHANGED <<storeVars, schemaVars, secureStore, startup, settings, scanner, timer>>

\* AsyncStorage.multiRemove([...]) of the else branch, then setChecking(false)
license_initializeApp_MultiRemove ==
    /\ licenseScreen.pc = "remove"
    /\ asyncStorage' =
          [k \in AsyncKeys |->
              IF k \in {"licenseActivated", "licenseKey", "deviceId", "customerName",
                        "projectName", "clientId"}
                THEN NoItem ELSE asyncStorage[k]]
    /\ licenseScreen' = [licenseScreen EXCEPT !.pc = "activation"]
    /\ UNCHANGED <<storeVars, schemaVars, secureStore, startup, settings, scanner, timer>>

(***************************************************************************)
(* The camera scanner of the stock tracker screen.                         *)
(***************************************************************************)
MaxScans == 2   \* scan events the camera delivers
MaxOpens == 2   \* times the scanner is opened

ScanIds == 1..MaxScans

\* foundProducts.length: none, one, several
FoundLengths == {"len:0", "len:1", "len:many"}

\* a scan event that was not delivered yet
NoScan == [pc |-> "none", data |-> ""]

\* the screen is mounted: the effect on showScanner has run once and its
\* 300 ms timer is pending
MountedScanner ==
    [showScanner |-> FALSE, scanned |-> FALSE, scanLockRef |-> FALSE,
     processingAlertRef |-> FALSE, scans |-> [i \in ScanIds |-> NoScan],
     resetAll |-> 1, resetLock |-> 0, opened |-> 0, searchText |-> ""]

\* setScanned(false); scanLockRef.current = false; processingAlertRef.current = false
ResetAll(sc) ==
    [sc EXCEPT !.scanned = FALSE, !.scanLockRef = FALSE, !.processingAlertRef = FALSE]

\* setScanned(false); scanLockRef.current = false
ResetLock(sc) == [sc EXCEPT !.scanned = FALSE, !.scanLockRef = FALSE]

\* a scan whose search or result handling is going on
InProgress(sc) == {i \in ScanIds : sc.scans[i].pc \in {"search", "alert_timer", "alert"}}

\* the scan button in camera mode with the permission granted
handleScanBarcode ==
    /\ ~scanner.showScanner
    /\ scanner.opened < MaxOpens
    /\ scanner' = [ResetAll(scanner) EXCEPT !.showScanner = TRUE, !.searchText = "",
                                            !.opened = @ + 1]
    /\ UNCHANGED <<storeVars, schemaVars, storageVars, screenVars, timer>>

\* the camera view, shown, delivers a barcode: the handler returns at once if
\* a lock is set, else it locks, closes the scanner (the effect on showScanner
\* sets its 300 ms timer) and awaits searchBarcodeWithVariants(data)
handleBarCodeScanned_Call(i, data) ==
    /\ scanner.showScanner
    /\ scanner.scans[i] = NoScan
    /\ \A j \in ScanIds : j < i => scanner.scans[j] # NoScan
    /\ scanner' =
          IF scanner.scanLockRef \/ scanner.scanned \/ scanner.processingAlertRef
            THEN [scanner EXCEPT !.scans[i] = [pc |-> "returned", data |-> data]]
            ELSE [scanner EXCEPT !.scanLockRef = TRUE, !.scanned = TRUE,
                                 !.showScanner = FALSE, !.resetAll = @ + 1,
                                 !.scans[i] = [pc |-> "search", data |-> data]]
    /\ UNCHANGED <<storeVars, schemaVars, storageVars, screenVars, timer>>

\* the search resolves: no product sets processingAlertRef and a 300 ms timer
\* for the alert; one or several products are shown and a 500 ms timer is set
handleBarCodeScanned_Found(i, length) ==
    /\ scanner.scans[i].pc = "search"
    /\ scanner' =
          IF length = "len:0"
            THEN [scanner EXCEPT !.processingAlertRef = TRUE,
                                 !.scans[i].pc = "alert_timer"]
            ELSE [scanner EXCEPT !.searchText = scanner.scans[i].data,
                                 !.resetLock = @ + 1,
                                 !.scans[i].pc = "done"]
    /\ UNCHANGED <<storeVars, schemaVars, storageVars, screenVars, timer>>

\* the 300 ms timer of the not-found branch: Alert.alert('Not Found', ...)
handleBarCodeScanned_Alert(i) ==
    /\ scanner.scans[i].pc = "alert_timer"
    /\ scanner' = [scanner EXCEPT !.scans[i].pc = "alert"]
    /\ UNCHANGED <<storeVars, schemaVars, storageVars, screenVars, timer>>

\* OK is pressed, or the alert is dismissed
handleBarCodeScanned_AlertOk(i) ==
    /\ scanner.scans[i].pc = "alert"
    /\ scanner' = [ResetAll(scanner) EXCEPT !.scans[i].pc = "done"]
    /\ UNCHANGED <<storeVars, schemaVars, storageVars, screenVars, timer>>

\* a 300 ms timer of the effect on showScanner or of handleCloseScanner
scanner_Timeout300 ==
    /\ scanner.resetAll > 0
    /\ scanner' = [ResetAll(scanner) EXCEPT !.resetAll = @ - 1]
    /\ UNCHANGED <<storeVars, schemaVars, storageVars, screenVars, timer>>

\* a 500 ms timer of the found branches
scanner_Timeout500 ==
    /\ scanner.resetLock > 0
    /\ scanner' = [ResetLock(scanner) EXCEPT !.resetLock = @ - 1]
    /\ UNCHANGED <<storeVars, schemaVars, storageVars, screenVars, timer>>

\* the close button: setShowScanner(false) and a 300 ms timer, beside the one
\* of the effect on showScanner
handleCloseScanner ==
    /\ scanner.showScanner
    /\ scanner' = [scanner EXCEPT !.showScanner = FALSE, !.resetAll = @ + 2]
    /\ UNCHANGED <<storeVars, schemaVars, storageVars, screenVars, timer>>

\* the download page before any download: no interval is set
NoTimer == [intervals |-> {}, downloadProgress |-> 0, currentStep |-> ""]

\* the screens beside the tables, at start, on an up-to-date installation
InitApp ==
    /\ columns = CreatedColumns
    /\ schema = IdleSchema
    /\ asyncStorage = EmptyAsyncStorage
    /\ secureStore = EmptySecureStore
    /\ startup = [s \in StartupScreens |-> MountedStartup]
    /\ settings = IdleSettings
    /\ licenseScreen = MountedLicenseScreen
    /\ scanner = MountedScanner
    /\ timer = NoTimer

(***************************************************************************)
(* The product cache of the stock tracker screen: product_data on the      *)
(* screen's connection db, fetchAllProducts, saveProductsToDatabase,       *)
(* fetchFromDatabase and searchBarcodeWithVariants.                        *)
(***************************************************************************)
MaxSearches == 1   \* searchBarcodeWithVariants calls started in one behaviour
batchSize == 100

UndefinedText == <<"<undefined>">>   \* a text property the object does not have

DigitChars == <<"0", "1", "2", "3", "4", "5", "6", "7", "8", "9">>

\* String(i) of a number
RECURSIVE Digits(_)
Digits(i) ==
    IF i < 10 THEN <<DigitChars[i + 1]>>
    ELSE Digits(i \div 10) \o <<DigitChars[(i % 10) + 1]>>

\* the lower-case letter for an upper-case one, as LOWER() and toLowerCase() do
LowerChar(c) == CASE c = "A" -> "a" [] c = "B" -> "b" [] OTHER -> c

Lower(t) == [j \in 1..Len(t) |-> LowerChar(t[j])]

\* the barcode of the i-th product of the server's list: the second and the
\* third are variants of the first
ApiBarcode(i) ==
    CASE i = 2 -> <<"b", "1", ":", "2">>
      [] i = 3 -> <<"b", "1", " ", ":", "3">>
      [] OTHER -> <<"b">> \o Digits(i)

\* a record of the server's product list; a field the record lacks is undefined
ApiProduct(code, name, barcode) ==
    [code |-> code, item_code |-> UndefinedText, itemcode |-> UndefinedText,
     name |-> name, item_name |-> Undefined, itemname |-> Undefined,
     barcode |-> barcode, bar_code |-> UndefinedText,
     productcode |-> UndefinedText, product_code |-> UndefinedText]

\* the server's list of n products in the version named by its names
Dataset(version, n) == [i \in 1..n |-> ApiProduct(Digits(i), version, ApiBarcode(i))]

\* String(a || b || '') for texts
OrChars(a, b) ==
    IF a \notin {UndefinedText, <<>>} THEN a
    ELSE IF b \notin {UndefinedText, <<>>} THEN b ELSE <<>>

\* the values of one row of the batch INSERT (the text columns the lookups read;
\* the other columns are copied the same way)
ProductRow(product) ==
    [code |-> OrChars(product.code, product.item_code),
     name |-> OrText(product.name, OrText(product.item_name, "Unknown")),
     barcode |-> OrChars(product.barcode, <<>>),
     productcode |-> OrChars(product.productcode, product.product_code)]

\* INSERT OR REPLACE INTO product_data ... VALUES (...), (...): code is the
\* primary key, a later row replaces an earlier one with the same code
InsertOrReplace(T, rows) ==
    LET last == {j \in DOMAIN rows : \A k \in DOMAIN rows : k > j => rows[k].code # rows[j].code}
    IN  {r \in T : \A j \in DOMAIN rows : rows[j].code # r.code} \cup {rows[j] : j \in last}

\* products.slice(i, i + batchSize), i counted from 0
Batch(products, i) ==
    [j \in 1..(IF Len(products) - i < batchSize THEN Len(products) - i ELSE batchSize)
        |-> ProductRow(products[i + j])]

\* the table after the whole list is saved into an empty table
SavedTable(products) == InsertOrReplace({}, [j \in 1..Len(products) |-> ProductRow(products[j])])

\* a save whatever the two counts are
ShouldSave_Always(existingCount, length) == TRUE

\* a save when the list is not smaller than 90% of the table
ShouldSave_NotSmaller(existingCount, length) == 10 * length >= 9 * existingCount

\* existingCount.count < products.length * 0.9
ShouldSave(existingCount, length) == 10 * existingCount < 9 * length

NoTxn == [active |-> FALSE, before |-> {}]

\* the screen is mounted and initializeDatabase has not yet called fetchAllProducts
IdleFetch == [pc |-> "idle", products |-> <<>>, i |-> 0]

\* fetchAllProducts has returned
DoneFetch == [pc |-> "done", products |-> <<>>, i |-> 0]

IdleSearch ==
    [pc |-> "idle", barcode |-> <<>>, exactRows |-> {}, variantRows1 |-> {},
     variantRows2 |-> {}, result |-> {}, runs |-> 0]

\* sizes of the local table at start and of the server's list
ExistingSizes == {0, 9, 100}

IncomingSizes == {0, 10, 85, 90, 100, 111, 112, 201}

\* api.get("/product-details") is sent
fetchAllProducts_Get ==
    /\ fetch.pc = "idle"
    /\ fetch' = [fetch EXCEPT !.pc = "get"]
    /\ UNCHANGED <<product_data, txn, search, allProducts, dataSource, ledgerVars>>
    /\ UNCHANGED moreVars

\* the request fails or times out: the catch block runs fetchFromDatabase
fetchAllProducts_Failed ==
    /\ fetch.pc = "get"
    /\ fetch' = [fetch EXCEPT !.pc = "fallback"]
    /\ UNCHANGED <<product_data, txn, search, allProducts, dataSource, ledgerVars>>
    /\ UNCHANGED moreVars

\* the response arrives with a list of n products
fetchAllProducts_Response(n) ==
    /\ fetch.pc = "get"
    /\ fetch' = [fetch EXCEPT !.pc = IF n > 0 THEN "count" ELSE "map",
                              !.products = Dataset("new", n)]
    /\ UNCHANGED <<product_data, txn, search, allProducts, dataSource, ledgerVars>>
    /\ UNCHANGED moreVars

\* SELECT COUNT(*) as count FROM product_data, then the decision to save
fetchAllProducts_Count ==
    /\ fetch.pc = "count"
    /\ fetch' = [fetch EXCEPT !.pc = IF ShouldSave(Cardinality(product_data),
                                                   Len(fetch.products))
                                       THEN "begin" ELSE "map"]
    /\ UNCHANGED <<product_data, txn, search, allProducts, dataSource, ledgerVars>>
    /\ UNCHANGED moreVars

\* db.withTransactionAsync: BEGIN
saveProductsToDatabase_Begin ==
    /\ fetch.pc = "begin"
    /\ txn' = [active |-> TRUE, before |-> product_data]
    /\ fetch' = [fetch EXCEPT !.pc = "delete"]
    /\ UNCHANGED <<product_data, search, allProducts, dataSource, ledgerVars>>
    /\ UNCHANGED moreVars

\* DELETE FROM product_data
saveProductsToDatabase_Delete ==
    /\ fetch.pc = "delete"
    /\ product_data' = {}
    /\ fetch' = [fetch EXCEPT !.pc = "insert", !.i = 0]
    /\ UNCHANGED <<txn, search, allProducts, dataSource, ledgerVars>>
    /\ UNCHANGED moreVars

\* one pass of the for loop: the INSERT of the batch at i
saveProductsToDatabase_Insert ==
    /\ fetch.pc = "insert"
    /\ fetch.i < Len(fetch.products)
    /\ product_data' = InsertOrReplace(product_data, Batch(fetch.products, fetch.i))
    /\ fetch' = [fetch EXCEPT !.i = @ + batchSize]
    /\ UNCHANGED <<txn, search, allProducts, dataSource, ledgerVars>>
    /\ UNCHANGED moreVars

\* the loop is over: COMMIT
saveProductsToDatabase_Commit ==
    /\ fetch.pc = "insert"
    /\ fetch.i >= Len(fetch.products)
    /\ txn' = NoTxn
    /\ fetch' = [fetch EXCEPT !.pc = "map"]
    /\ UNCHANGED <<product_data, search, allProducts, dataSource, ledgerVars>>
    /\ UNCHANGED moreVars

\* a statement of the transaction fails: ROLLBACK, and saveProductsToDatabase
\* logs the error and returns
saveProductsToDatabase_Rollback ==
    /\ fetch.pc \in {"delete", "insert"}
    /\ product_data' = txn.before
    /\ txn' = NoTxn
    /\ fetch' = [fetch EXCEPT !.pc = "map"]
    /\ UNCHANGED <<search, allProducts, dataSource, ledgerVars>>
    /\ UNCHANGED moreVars

\* String(x).trim()
RECURSIVE TrimLeft(_)
TrimLeft(t) == IF t # <<>> /\ Head(t) = " " THEN TrimLeft(Tail(t)) ELSE t

RECURSIVE TrimRight(_)
TrimRight(t) ==
    IF t # <<>> /\ t[Len(t)] = " " THEN TrimRight(SubSeq(t, 1, Len(t) - 1)) ELSE t

Trim(t) == TrimRight(TrimLeft(t))

\* the elements of a list, each as often as the list has it
BagOfSeq(q) ==
    [e \in {q[j] : j \in DOMAIN q} |-> Cardinality({j \in DOMAIN q : q[j] = e})]

\* one element of products.map(...); the names of the model carry no blanks
\* at their ends
MappedApiProduct(row) ==
    [code |-> Trim(OrChars(OrChars(row.code, row.item_code), row.itemcode)),
     name |-> OrText(row.name, OrText(row.item_name, OrText(row.itemname, "Unknown"))),
     barcode |-> Trim(OrChars(row.barcode, row.bar_code)),
     productcode |-> Trim(OrChars(row.productcode, row.product_code))]

\* products.map(...), setAllProducts(mappedProducts), setDataSource('api')
fetchAllProducts_Map ==
    /\ fetch.pc = "map"
    /\ allProducts' =
          BagOfSeq([j \in 1..Len(fetch.products) |-> MappedApiProduct(fetch.products[j])])
    /\ dataSource' = "api"
    /\ fetch' = DoneFetch
    /\ UNCHANGED <<product_data, txn, search, ledgerVars>>
    /\ UNCHANGED moreVars

\* rows.map(...) of fetchFromDatabase
MappedRow(row) ==
    [code |-> Trim(row.code), name |-> OrText(row.name, "Unknown"),
     barcode |-> Trim(row.barcode), productcode |-> Trim(row.productcode)]

BagOfRows(T) ==
    [e \in {MappedRow(r) : r \in T} |-> Cardinality({r \in T : MappedRow(r) = e})]

\* SELECT * FROM product_data; no rows: alert and return, else setAllProducts
\* and setDataSource('database')
fetchFromDatabase ==
    /\ fetch.pc = "fallback"
    /\ IF product_data = {}
         THEN UNCHANGED <<allProducts, dataSource>>
         ELSE /\ allProducts' = BagOfRows(product_data)
              /\ dataSource' = "database"
    /\ fetch' = DoneFetch
    /\ UNCHANGED <<product_data, txn, search, ledgerVars>>
    /\ UNCHANGED moreVars

\* the barcodes typed or scanned
SearchTexts == {<<"b", "1">>, <<"B", "1", " ">>, <<"b", "9">>}

\* LOWER(column) = LOWER(?) on one of barcode, productcode, code
ExactMatch(T, q) ==
    {r \in T : \/ Lower(r.barcode) = Lower(q)
               \/ Lower(r.productcode) = Lower(q)
               \/ Lower(r.code) = Lower(q)}

\* text LIKE prefix%, for a prefix with no wildcard in it
StartsWith(text, prefix) ==
    Len(text) >= Len(prefix) /\ SubSeq(text, 1, Len(prefix)) = prefix

\* LOWER(column) LIKE LOWER(?) with the pattern q followed by mark and %
VariantMatch(T, q, mark) ==
    {r \in T : \/ StartsWith(Lower(r.barcode), Lower(q \o mark))
               \/ StartsWith(Lower(r.productcode), Lower(q \o mark))
               \/ StartsWith(Lower(r.code), Lower(q \o mark))}

\* barcode.trim(); the first query is sent
searchBarcodeWithVariants_Call(barcode) ==
    /\ search.pc = "idle"
    /\ search.runs < MaxSearches
    /\ search' = [IdleSearch EXCEPT !.pc = "exact", !.barcode = Trim(barcode),
                                    !.runs = search.runs + 1]
    /\ UNCHANGED <<product_data, txn, fetch, allProducts, dataSource, ledgerVars>>
    /\ UNCHANGED moreVars

\* the exact query runs on the connection: it reads the table as the
\* connection sees it, the open transaction's changes included
searchBarcodeWithVariants_Exact ==
    /\ search.pc = "exact"
    /\ search' = [search EXCEPT !.pc = "variant1",
                                !.exactRows = ExactMatch(product_data, search.barcode)]
    /\ UNCHANGED <<product_data, txn, fetch, allProducts, dataSource, ledgerVars>>
    /\ UNCHANGED moreVars

\* the query for the variants written with a blank before the colon
searchBarcodeWithVariants_Variants1 ==
    /\ search.pc = "variant1"
    /\ search' = [search EXCEPT !.pc = "variant2",
                                !.variantRows1 =
                                    VariantMatch(product_data, search.barcode, <<" ", ":">>)]
    /\ UNCHANGED <<product_data, txn, fetch, allProducts, dataSource, ledgerVars>>
    /\ UNCHANGED moreVars

\* the query for the variants written without the blank
searchBarcodeWithVariants_Variants2 ==
    /\ search.pc = "variant2"
    /\ search' = [search EXCEPT !.pc = "return",
                                !.variantRows2 =
                                    VariantMatch(product_data, search.barcode, <<":">>)]
    /\ UNCHANGED <<product_data, txn, fetch, allProducts, dataSource, ledgerVars>>
    /\ UNCHANGED moreVars

\* the first row of each lower-cased barcode in [...exactRows, ...variantRows1,
\* ...variantRows2]; rows of one result come in an order the query leaves open
UniqueRows(exactRows, variantRows1, variantRows2) ==
    LET allRows == exactRows \cup variantRows1 \cup variantRows2
        keys == {Lower(r.barcode) : r \in allRows}
        with(rows, k) == {r \in rows : Lower(r.barcode) = k}
        first(k) == IF with(exactRows, k) # {} THEN with(exactRows, k)
                    ELSE IF with(variantRows1, k) # {} THEN with(variantRows1, k)
                    ELSE with(variantRows2, k)
    IN  {{f[k] : k \in keys} : f \in {g \in [keys -> allRows] :
                                         \A k \in keys : g[k] \in first(k)}}

\* the duplicates are dropped, the rows mapped and returned
searchBarcodeWithVariants_Return ==
    /\ search.pc = "return"
    /\ \E uniqueRows \in UniqueRows(search.exactRows, search.variantRows1,
                                   search.variantRows2) :
          search' = [search EXCEPT !.pc = "idle",
                                   !.result = {MappedRow(r) : r \in uniqueRows}]
    /\ UNCHANGED <<product_data, txn, fetch, allProducts, dataSource, ledgerVars>>
    /\ UNCHANGED moreVars

(***************************************************************************)
(* The product cache while the screen loads the list and a barcode is      *)
(* looked up.                                                              *)
(***************************************************************************)
\* the screen is mounted on the product table T
InitScreen(T) ==
    /\ InitApp
    /\ product_data = T
    /\ txn = NoTxn
    /\ fetch = IdleFetch
    /\ search = IdleSearch
    /\ allProducts = EmptyBag
    /\ dataSource = "api"
    /\ InitMore
    /\ orders_to_sync = {}
    /\ nextId = 1
    /\ clock = 0
    /\ save = [p \in Savers |-> IdleSave]
    /\ cleanup = [pc |-> "idle", duplicates |-> {}, cur |-> NoGroup, found |-> 0]
    /\ flush = IdleFlush
    /\ token = "jwt"
    /\ requests = <<>>
    /\ started = 0
    /\ ledger0 = {}
    /\ captured = [k \in Keys |-> 0]

InitProducts ==
    \E existing \in ExistingSizes : InitScreen(SavedTable(Dataset("old", existing)))

NextProducts ==
    \/ fetchAllProducts_Get
    \/ fetchAllProducts_Failed
    \/ \E n \in IncomingSizes : fetchAllProducts_Response(n)
    \/ fetchAllProducts_Count
    \/ saveProductsToDatabase_Begin
    \/ saveProductsToDatabase_Delete
    \/ saveProductsToDatabase_Insert
    \/ saveProductsToDatabase_Commit
    \/ saveProductsToDatabase_Rollback
    \/ fetchAllProducts_Map
    \/ fetchFromDatabase
    \/ \E barcode \in SearchTexts : searchBarcodeWithVariants_Call(barcode)
    \/ searchBarcodeWithVariants_Exact
    \/ searchBarcodeWithVariants_Variants1
    \/ searchBarcodeWithVariants_Variants2
    \/ searchBarcodeWithVariants_Return

SpecProducts == InitProducts /\ [][NextProducts]_vars

(***************************************************************************)
(* The ledger under every interleaving of captures, the duplicate merge    *)
(* and the flush, from a ledger with at most one pending row per key.      *)
(***************************************************************************)
\* product rows of the ledger's runs: two rows share barcode A, none has B
LedgerProducts ==
    {[code |-> <<"c", "1">>, name |-> "Item A", barcode |-> <<"A">>, productcode |-> <<>>],
     [code |-> <<"c", "2">>, name |-> "Item A2", barcode |-> <<"A">>, productcode |-> <<>>]}

\* replies of the ledger's runs: one per outcome
LedgerReplies ==
    {r \in ServerReplies :
        \/ r.ok /\ r.data.type = "object" /\ r.data.status = Undefined
                /\ r.data.success # Undefined
                /\ r.data.message = Undefined /\ r.data.uploaded_count = 0
        \/ ~r.ok /\ r.error.message # "" /\ r.error.dataMessage = Undefined
                 /\ r.error.code = "ECONNABORTED"}

InitStore(L) ==
    /\ orders_to_sync = L
    /\ nextId = Cardinality(L) + 1
    /\ clock = 0
    /\ product_data = LedgerProducts
    /\ save = [p \in Savers |-> IdleSave]
    /\ cleanup = [pc |-> "idle", duplicates |-> {}, cur |-> NoGroup, found |-> 0]
    /\ flush = IdleFlush
    /\ requests = <<>>
    /\ started = 0
    /\ ledger0 = L
    /\ captured = [k \in Keys |-> 0]
    /\ txn = NoTxn
    /\ fetch = IdleFetch
    /\ search = IdleSearch
    /\ allProducts = EmptyBag
    /\ dataSource = "api"
    /\ InitMore

InitLedger(L) == InitStore(L) /\ InitApp

Init ==
    /\ \E L \in CleanStartLedgers : InitLedger(L)
    /\ token \in {NoToken, "jwt"}

Next ==
    \/ \E p \in Savers : \E order \in Orders : saveOrderToSync_Lookup(p, order)
    \/ \E p \in Savers : saveOrderToSync_Update(p)
    \/ \E p \in Savers : saveOrderToSync_Insert(p)
    \/ \E p \in Savers : saveOrderToSync_Catch(p)
    \/ cleanupDuplicateOrders_Scan
    \/ cleanupDuplicateOrders_Resume
    \/ flush_getPendingOrders
    \/ uploadPendingOrders_Token
    \/ uploadPendingOrders_Post
    \/ uploadPendingOrders_Response(LedgerReplies)
    \/ markOrdersAsSynced

Spec == Init /\ [][Next]_vars

(***************************************************************************)
(* Captures alone: whole calls one after the other (SpecSeq), and calls    *)
(* interleaving at their await points (SpecCapture).                       *)
(***************************************************************************)
InitSeq ==
    /\ \E L \in StartLedgers : InitLedger(L)
    /\ token = "jwt"

NextSeq == \E order \in Orders : saveOrderToSync(order)

SpecSeq == InitSeq /\ [][NextSeq]_vars

InitCapture ==
    /\ \E L \in CleanStartLedgers : InitLedger(L)
    /\ token = "jwt"

NextCapture ==
    \/ \E p \in Savers : \E order \in Orders : saveOrderToSync_Lookup(p, order)
    \/ \E p \in Savers : saveOrderToSync_Update(p)
    \/ \E p \in Savers : saveOrderToSync_Insert(p)
    \/ \E p \in Savers : saveOrderToSync_Catch(p)

SpecCapture == InitCapture /\ [][NextCapture]_vars

(***************************************************************************)
(* Claims about the ledger.                                                *)
(***************************************************************************)
NoCallInFlight == \A p \in Savers : save[p].pc = "idle"

\* C1: after whole saveOrderToSync calls run one after the other from a ledger
\* with no pending row for a natural key, the ledger holds exactly one pending
\* row for that key and its quantity is the sum of the quantities captured for it
C1_OnePendingRowWithSum ==
    \A k \in Keys :
        (PendingFor(ledger0, k) = {} /\ captured[k] > 0) =>
            \E r \in orders_to_sync :
                PendingFor(orders_to_sync, k) = {r} /\ r.quantity = captured[k]

\* three captures of one key, none pending at start: an insert and two increments
C1_Witness ==
    \E k \in Keys :
        /\ PendingFor(ledger0, k) = {}
        /\ started = 3
        /\ captured[k] = 5

C3_NoLostIncrement ==
    NoCallInFlight =>
        \A r0 \in Pending(ledger0) :
            \E r \in orders_to_sync :
                r.id = r0.id /\ r.quantity = r0.quantity + captured[NaturalKey(r0)]

\* C4: when the server acknowledged a batch ({success: true}), every row that
\* markOrdersAsSynced turns to synced was in that batch with the quantity it has
\* when it is marked
C4_SyncedOnlyIfUploaded ==
    [][(/\ flush.pc = "mark" /\ flush'.pc = "idle"
        /\ flush.reply.data.success = "bool:true" /\ flush.orders # <<>>) =>
          \A r \in Pending(orders_to_sync) :
              (\E r2 \in orders_to_sync' : r2.id = r.id /\ r2.sync_status = "synced") =>
                  \E i \in 1..Len(flush.orders) :
                      flush.orders[i].id = r.id /\ flush.orders[i].quantity = r.quantity]_vars

\* C5: no step of uploadPendingOrders (token check, POST, response or error)
\* changes any row of the ledger, whatever the outcome
C5_UploadLeavesLedger ==
    [][(flush.pc \in {"token", "post", "wait"} /\ flush' # flush) =>
          orders_to_sync' = orders_to_sync]_vars

\* a flush was sent and failed, and the orders it submitted are still pending
C5_Witness ==
    /\ flush.pc = "idle"
    /\ flush.result.threw
    /\ requests # <<>>
    /\ \E i \in 1..Len(requests[1].orders) :
          \E r \in Pending(orders_to_sync) : r.barcode = requests[1].orders[i].barcode

(***************************************************************************)
(* uploadPendingOrders on its own, for every list of orders a caller may   *)
(* pass and every reply of the server.                                     *)
(***************************************************************************)
MaxOrders == 2   \* orders in one uploaded batch

OrderInputs ==
    [id : {1}, supplier_code : {"s1"}, userid : {"u1"}, barcode : {<<"A", "B", "C">>},
     quantity : {1}, rate : {10}, mrp : {20}, order_date : {"d1"}, created_at : {0},
     sync_status : {"pending"},
     is_manual_entry : {"num:1", "str:1", "bool:true", "num:0", "str:true", NullStr},
     product_name : {"Custom Item", NullStr},
     itemcode : {"X1", Undefined}]

RECURSIVE SeqsUpTo(_, _)
SeqsUpTo(S, n) ==
    IF n = 0 THEN {<<>>}
    ELSE SeqsUpTo(S, n - 1) \cup
         {Append(s, x) : s \in {t \in SeqsUpTo(S, n - 1) : Len(t) = n - 1}, x \in S}

InitUpload ==
    /\ InitLedger({})
    /\ token \in {NoToken, "jwt"}

\* the caller passes a list of orders
uploadPendingOrders_Call ==
    /\ flush.pc = "idle"
    /\ started = 0
    /\ started' = 1
    /\ \E orders \in SeqsUpTo(OrderInputs, MaxOrders) :
          flush' = [IdleFlush EXCEPT !.pc = "token", !.orders = orders]
    /\ UNCHANGED <<orders_to_sync, nextId, clock, product_data, save, cleanup,
                   token, requests, ledger0, captured>>
    /\ UNCHANGED cacheVars
    /\ UNCHANGED moreVars

NextUpload ==
    \/ uploadPendingOrders_Call
    \/ uploadPendingOrders_Token
    \/ uploadPendingOrders_Post
    \/ uploadPendingOrders_Response(ServerReplies)

SpecUpload == InitUpload /\ [][NextUpload]_vars

\* the request of the call in progress
Sent == requests[Len(requests)]

FormattedInOrder ==
    /\ Len(Sent.orders) = Len(flush.orders)
    /\ Sent.total_orders = Len(Sent.orders)
    /\ \A i \in 1..Len(flush.orders) :
          /\ Sent.orders[i].barcode = flush.orders[i].barcode
          /\ Sent.orders[i].quantity = flush.orders[i].quantity
          /\ Sent.orders[i].user_id = flush.orders[i].userid

\* C9 as claimed: a manual order is sent with item = its product_name
C9_Original ==
    (flush.pc \in {"wait", "mark"}) =>
        /\ FormattedInOrder
        /\ \A i \in 1..Len(flush.orders) :
              IF flush.orders[i].is_manual_entry \in {"num:1", "str:1", "bool:true"}
                THEN /\ Sent.orders[i].code = flush.orders[i].barcode
                     /\ Sent.orders[i].item = flush.orders[i].product_name
                     /\ Sent.orders[i].ioflag = -100
                ELSE /\ Sent.orders[i].code = flush.orders[i].itemcode
                     /\ Sent.orders[i].item = ""
                     /\ Sent.orders[i].ioflag = 0

\* C9: the batch sent has one entry per order, in order, total_orders is their
\* number; an order whose is_manual_entry is 1, '1' or true is sent with code =
\* barcode, ioflag = -100 and item = product_name, or '' when it has no
\* product_name; every other order with code = itemcode, item = '', ioflag = 0
C9_FormatKeepsTag ==
    (flush.pc \in {"wait", "mark"}) =>
        /\ FormattedInOrder
        /\ \A i \in 1..Len(flush.orders) :
              IF flush.orders[i].is_manual_entry \in {"num:1", "str:1", "bool:true"}
                THEN /\ Sent.orders[i].code = flush.orders[i].barcode
                     /\ Sent.orders[i].item =
                           (IF flush.orders[i].product_name = NullStr THEN ""
                            ELSE flush.orders[i].product_name)
                     /\ Sent.orders[i].ioflag = -100
                ELSE /\ Sent.orders[i].code = flush.orders[i].itemcode
                     /\ Sent.orders[i].item = ""
                     /\ Sent.orders[i].ioflag = 0

\* a batch of a manual order followed by a catalog order was sent
C9_Witness ==
    /\ flush.pc = "wait"
    /\ Len(flush.orders) = 2
    /\ flush.orders[1].is_manual_entry = "str:1"
    /\ flush.orders[1].product_name = "Custom Item"
    /\ flush.orders[2].is_manual_entry = "num:0"
    /\ Sent.orders[1].ioflag = -100
    /\ Sent.orders[2].code = "X1"

\* the three tolerated shapes of a response body
ToleratedShape(data) ==
    \/ data.type = "object" /\ data.success = "bool:true"
    \/ data.type = "object" /\ data.status = "str:success"
    \/ data.type = "string" /\ Includes(data.text, TextSuccess)

\* C10: uploadPendingOrders returns success: true exactly for a response body of
\* one of the three tolerated shapes
C10_SuccessOnlyForToleratedShapes ==
    (flush.reply.ok /\ ~flush.result.threw) =>
        (flush.result.success <=> ToleratedShape(flush.reply.data))

(***************************************************************************)
(* The product cache: when the list replaces the table, and what a lookup  *)
(* sees meanwhile.                                                         *)
(***************************************************************************)
\* the step of fetchAllProducts that decides whether saveProductsToDatabase runs
SaveDecided == fetch.pc \in {"get", "count"} /\ fetch'.pc \in {"begin", "map"}

\* C6: when the list has fewer records than 90% of the rows of the table,
\* fetchAllProducts goes on without saveProductsToDatabase and the step leaves
\* every row of product_data as it is
C6_ShrinkSkipped ==
    [][(SaveDecided /\ 10 * Len(fetch'.products) < 9 * Cardinality(product_data))
          => (fetch'.pc = "map" /\ product_data' = product_data)]_vars

\* a list of 85 records met a table of 100 rows, and the 100 rows are there
C6_Witness ==
    /\ fetch.pc = "map"
    /\ Len(fetch.products) = 85
    /\ product_data = SavedTable(Dataset("old", 100))

\* C7 as claimed: for a list of N > 0 records and a table of E rows,
\* saveProductsToDatabase is called if and only if N >= 0.9 * E
C7_Original ==
    [][(SaveDecided /\ Len(fetch'.products) > 0)
          => (fetch'.pc = "begin"
                <=> 10 * Len(fetch'.products) >= 9 * Cardinality(product_data))]_vars

\* C7: saveProductsToDatabase is called if and only if the list is not empty
\* and the table has fewer rows than 90% of the list's records (E < 0.9 * N)
C7_SaveIffFewer ==
    [][SaveDecided
          => (fetch'.pc = "begin"
                <=> /\ Len(fetch'.products) > 0
                    /\ 10 * Cardinality(product_data) < 9 * Len(fetch'.products))]_vars

\* a list of 100 records met a table of 100 rows and the save was skipped
C7_Witness ==
    /\ fetch.pc = "map"
    /\ ~txn.active
    /\ Len(fetch.products) = 100
    /\ product_data = SavedTable(Dataset("old", 100))

\* a query of searchBarcodeWithVariants reads the table
SearchReads ==
    /\ search.pc \in {"exact", "variant1", "variant2"}
    /\ search'.pc # search.pc

\* C8: the replace is all or nothing: a query of a barcode search reads
\* product_data either as it was before the replace or with the whole new list
\* in it, and a failing replace leaves the rows it found
C8_ReplaceAllOrNothing ==
    [][/\ (SearchReads /\ txn.active)
            => product_data \in {txn.before, SavedTable(fetch.products)}
       /\ (txn.active /\ ~txn'.active /\ fetch.i < Len(fetch.products))
            => product_data' = txn.before]_vars

(***************************************************************************)
(* The two upload functions, one call of either, with and without a token. *)
(***************************************************************************)
\* the caller passes a list of orders to uploadOrdersBatch
uploadOrdersBatch_Call ==
    /\ batch.pc = "idle"
    /\ started = 0
    /\ started' = 1
    /\ \E orders \in SeqsUpTo(OrderInputs, MaxOrders) :
          batch' = [IdleBatch EXCEPT !.pc = "token", !.orders = orders]
    /\ UNCHANGED <<appVars, orders_to_sync, nextId, clock, save, cleanup, flush, token,
                   requests, ledger0, captured, product_data, cacheVars, merges, sideVars>>

NextAuth ==
    \/ uploadPendingOrders_Call
    \/ uploadPendingOrders_Token
    \/ uploadPendingOrders_Post
    \/ uploadPendingOrders_Response(ServerReplies)
    \/ uploadOrdersBatch_Call
    \/ uploadOrdersBatch_Token
    \/ uploadOrdersBatch_Post
    \/ uploadOrdersBatch_Response(ServerReplies)

SpecAuth == InitUpload /\ [][NextAuth]_vars

\* C11: with no token stored, no step of uploadPendingOrders or uploadOrdersBatch
\* sends a request, and the token check of either ends the call with its
\* authentication error thrown
C11_NoRequestWithoutToken ==
    [][token = NoToken =>
          /\ requests' = requests
          /\ (flush.pc = "token" /\ flush'.pc # "token") =>
                /\ flush'.pc = "idle"
                /\ flush'.result.threw
                /\ flush'.result.message =
                      "Authentication token not found. Please login again."
          /\ (batch.pc = "token" /\ batch'.pc # "token") =>
                /\ batch'.pc = "idle"
                /\ batch'.result.threw
                /\ batch'.result.message = "Authentication required"]_vars

\* a call of uploadPendingOrders with orders and no token has thrown, no request sent
C11_Witness ==
    /\ token = NoToken
    /\ started = 1
    /\ flush.pc = "idle"
    /\ flush.result.threw
    /\ requests = <<>>

(***************************************************************************)
(* cleanupDuplicateOrders run on its own, once and again, on ledgers that   *)
(* hold duplicate pending rows.                                            *)
(***************************************************************************)
\* ledgers with ids 1..n, any mix of keys, quantities and statuses
LegacyLedgers ==
    UNION {{{Row(i, f[i][1], f[i][2], f[i][3]) : i \in 1..n} :
              f \in [1..n -> Barcodes \X Quantities \X {"pending", "synced"}]} :
           n \in 0..MaxLegacyRows}

InitCleanup ==
    /\ \E L \in LegacyLedgers : InitLedger(L)
    /\ token = "jwt"

NextCleanup == cleanupDuplicateOrders

SpecCleanup == InitCleanup /\ [][NextCleanup]_vars

\* C12: a second cleanupDuplicateOrders run right after the first leaves the rows
\* the first run left and reports zero duplicate groups
C12_MergeIdempotent ==
    Len(merges) >= 2 =>
        /\ merges[2].rows = merges[1].rows
        /\ merges[2].found = 0

\* two runs are over and the first one merged a group
C12_Witness ==
    /\ Len(merges) = 2
    /\ merges[1].found = 1
    /\ merges[1].rows # ledger0

\* the row of a group that was inserted first
EarliestRow(G) == CHOOSE r \in G : \A x \in G : r.id <= x.id

\* C13: after one run every group of several pending rows is one pending row,
\* the earliest of the group, with the sum of the group's quantities, the other
\* rows of the group are gone, and every other row is as it was
C13_MergeIntoEarliest ==
    Len(merges) >= 1 =>
        LET after == merges[1].rows
        IN  /\ \A k \in Keys :
                  LET G == PendingFor(ledger0, k)
                  IN  IF Cardinality(G) > 1
                        THEN {r \in after : r.id \in {x.id : x \in G}} =
                                {[EarliestRow(G) EXCEPT !.quantity = SumQty(G)]}
                        ELSE G \subseteq after
            /\ {r \in ledger0 : r.sync_status = "synced"} \subseteq after
            /\ {r.id : r \in after} \subseteq {r.id : r \in ledger0}

(***************************************************************************)
(* The life of a ledger row under captures, merges and flushes.            *)
(***************************************************************************)
\* the call p leaves its catch block and returns
CatchReturns(p) == save[p].pc = "catch" /\ save'[p].pc = "idle"

\* C14: after a uniqueness violation of the INSERT the call returns normally
\* and a pending row of the order's key has its quantity increased by exactly
\* the captured quantity
C14_FallbackIsIncrement ==
    [][\A p \in Savers :
          CatchReturns(p) =>
              \E r \in PendingFor(orders_to_sync, NaturalKey(save[p].order)) :
                  [r EXCEPT !.quantity = r.quantity + save[p].order.quantity,
                            !.rate = save[p].order.rate, !.mrp = save[p].order.mrp,
                            !.created_at = clock'] \in orders_to_sync']_vars

\* C15: synced is terminal: a row that is synced keeps its status and its
\* quantity through every step of a capture, a merge and a flush, and a pending
\* row that stays in the ledger is pending or synced afterwards
C15_SyncedIsTerminal ==
    [][\A r \in orders_to_sync :
          /\ r.sync_status = "synced" =>
                \E x \in orders_to_sync' :
                    x.id = r.id /\ x.sync_status = "synced" /\ x.quantity = r.quantity
          /\ \A x \in orders_to_sync' :
                x.id = r.id => x.sync_status \in {"pending", "synced"}]_vars

(***************************************************************************)
(* Every operation on the ledger, the reset included, on ledgers that may   *)
(* hold duplicate pending rows of one key.                                 *)
(***************************************************************************)
MaxLifecycleRows == 2   \* rows of the ledger at the start of a lifecycle run

LifecycleLedgers ==
    {L \in LegacyLedgers : /\ Cardinality(L) <= MaxLifecycleRows
                           /\ \A r \in L : r.barcode = <<"A">> /\ r.quantity = 1}

InitLifecycle ==
    /\ \E L \in LifecycleLedgers : InitLedger(L)
    /\ token = "jwt"

MaxOperations == 2   \* operations of one lifecycle run

\* no operation is between two of its statements, and one more may begin
Quiet ==
    /\ cleanup.pc = "idle" /\ flush.pc = "idle" /\ reset = "idle"
    /\ started < MaxOperations

\* the operations one after the other: saveOrderToSync, cleanupDuplicateOrders
\* (which is all that runInitialCleanup runs), the flush and clearAllSyncData
NextLifecycle ==
    \/ Quiet /\ \E order \in Orders : saveOrderToSync(order)
    \/ Quiet /\ cleanupDuplicateOrders_Scan
    \/ cleanupDuplicateOrders_Resume
    \/ Quiet /\ flush_getPendingOrders
    \/ uploadPendingOrders_Token
    \/ uploadPendingOrders_Post
    \/ uploadPendingOrders_Response(LedgerReplies)
    \/ markOrdersAsSynced
    \/ Quiet /\ clearAllSyncData_Orders
    \/ clearAllSyncData_Info

SpecLifecycle == InitLifecycle /\ [][NextLifecycle]_vars

\* a row of the ledger is gone after the step
RowRemoved == \E r \in orders_to_sync : \A x \in orders_to_sync' : x.id # r.id

\* the DELETE FROM orders_to_sync of clearAllSyncData
ResetDeletes == reset = "idle" /\ reset' = "sync_info"

\* the DELETE of cleanupDuplicateOrders
MergeDeletes == cleanup.pc = "delete" /\ cleanup'.pc = "loop"

\* C16 as claimed: only clearAllSyncData removes rows from orders_to_sync
C16_Original == [][RowRemoved => ResetDeletes]_vars

\* C16: a row is removed from orders_to_sync only by clearAllSyncData and by the
\* DELETE of cleanupDuplicateOrders (runInitialCleanup runs it), which removes
\* the rows of a merged group other than the kept one
C16_OnlyResetAndMergeDelete ==
    [][RowRemoved =>
          \/ ResetDeletes
          \/ /\ MergeDeletes
             /\ \A r \in orders_to_sync :
                   (\A x \in orders_to_sync' : x.id # r.id)
                      => r.id \in SeqRange(Tail(cleanup.cur.order_ids))]_vars

\* cleanupDuplicateOrders has deleted a row of the starting ledger, no reset has run
C16_Witness ==
    /\ cleanup.pc = "loop"
    /\ cleanup.cur # NoGroup
    /\ reset = "idle"
    /\ orders_to_sync # {}
    /\ \E r \in ledger0 : /\ r.id \in SeqRange(Tail(cleanup.cur.order_ids))
                          /\ \A x \in orders_to_sync : x.id # r.id

(***************************************************************************)
(* The product list saved and read back, for lists whose records name      *)
(* their code and barcode by any of the aliases the screen accepts.        *)
(***************************************************************************)
MaxProducts == 2   \* records of a downloaded list

\* records with the code under code, item_code or itemcode and the barcode
\* under barcode or bar_code
ApiRecords ==
    {[ApiProduct(UndefinedText, "new", UndefinedText)
         EXCEPT ![cf] = c, ![bf] = b] :
        cf \in {"code", "item_code", "itemcode"}, c \in {<<"1">>, <<"2">>},
        bf \in {"barcode", "bar_code"}, b \in {<<"b", "1">>, <<"b", "2">>}}

\* the response arrives with the list products
fetchAllProducts_Records(products) ==
    /\ fetch.pc = "get"
    /\ fetch' = [fetch EXCEPT !.pc = IF Len(products) > 0 THEN "count" ELSE "map",
                              !.products = products]
    /\ UNCHANGED <<product_data, txn, search, allProducts, dataSource, ledgerVars>>
    /\ UNCHANGED moreVars

\* what fetchFromDatabase passes to setAllProducts when it reads the table T
ReadBack(T) == BagOfRows(T)

NextRoundTrip ==
    \/ fetchAllProducts_Get
    \/ \E products \in SeqsUpTo(ApiRecords, MaxProducts) : fetchAllProducts_Records(products)
    \/ fetchAllProducts_Count
    \/ saveProductsToDatabase_Begin
    \/ saveProductsToDatabase_Delete
    \/ saveProductsToDatabase_Insert
    \/ saveProductsToDatabase_Commit
    \/ fetchAllProducts_Map

SpecRoundTrip == InitProducts /\ [][NextRoundTrip]_vars

\* saveProductsToDatabase has saved the list of the call and returned
ListSaved ==
    fetch.pc = "map" /\ Len(fetch.products) > 0 /\ fetch.i >= Len(fetch.products)

\* the downloaded records as fetchAllProducts normalises their aliases
Downloaded == [j \in 1..Len(fetch.products) |-> MappedApiProduct(fetch.products[j])]

\* C17: a saved list of N records with N different codes reads back as N
\* records with the codes and the barcodes of the downloaded records
C17_RoundTrip ==
    (ListSaved /\ Cardinality({Downloaded[j].code : j \in DOMAIN Downloaded})
                     = Len(Downloaded)) =>
        LET back == ReadBack(product_data)
        IN  /\ BagCardinality(back) = Len(Downloaded)
            /\ {r.code : r \in BagToSet(back)} =
                  {Downloaded[j].code : j \in DOMAIN Downloaded}
            /\ {r.barcode : r \in BagToSet(back)} =
                  {Downloaded[j].barcode : j \in DOMAIN Downloaded}

(***************************************************************************)
(* searchBarcodeWithVariants on tables whose barcodes repeat, differ in    *)
(* case or carry a blank at the end.                                       *)
(***************************************************************************)
MaxTableRows == 2   \* rows of the product table searched

StoredBarcodes ==
    {<<"b", "1">>, <<"B", "1">>, <<"b", "1", ":", "1">>, <<"b", "1", ":", "1", " ">>,
     <<"b", "1", " ", ":", "2">>, <<"b", "2">>}

\* tables of up to MaxTableRows rows, each with a code of its own
SearchTables ==
    UNION {{{[code |-> Digits(i), name |-> "Item", barcode |-> f[i], productcode |-> <<>>] :
               i \in 1..n} : f \in [1..n -> StoredBarcodes]} : n \in 0..MaxTableRows}

InitSearch == \E T \in SearchTables : InitScreen(T)

NextSearch ==
    \/ \E barcode \in SearchTexts : searchBarcodeWithVariants_Call(barcode)
    \/ searchBarcodeWithVariants_Exact
    \/ searchBarcodeWithVariants_Variants1
    \/ searchBarcodeWithVariants_Variants2
    \/ searchBarcodeWithVariants_Return

SpecSearch == InitSearch /\ [][NextSearch]_vars

\* a search has returned
SearchReturned == search.pc = "idle" /\ search.runs > 0

\* the stored barcode is the query, or the query followed by ':' or ' :' and a
\* suffix, letters compared without their case
IsVariantOf(stored, q) ==
    \/ Lower(stored) = Lower(q)
    \/ StartsWith(Lower(stored), Lower(q) \o <<":">>)
    \/ StartsWith(Lower(stored), Lower(q) \o <<" ", ":">>)

\* C18: the search returns every stored record whose barcode is the query or a
\* variant of it, and no two records of the result have the same barcode,
\* compared without case
C18_AllVariantsOncePerBarcode ==
    SearchReturned =>
        /\ \A r \in product_data :
              IsVariantOf(r.barcode, search.barcode) => MappedRow(r) \in search.result
        /\ \A x, y \in search.result :
              x # y => Lower(x.barcode) # Lower(y.barcode)

\* the second half of C18 alone
C18_OncePerBarcode ==
    SearchReturned =>
        \A x, y \in search.result : x # y => Lower(x.barcode) # Lower(y.barcode)

(***************************************************************************)
(* saveMasterData: the master records of a download are written to          *)
(* master_data in one transaction.                                         *)
(***************************************************************************)
MaxMasterRecords == 2   \* records in one downloaded list
MaxSaves == 2           \* calls of saveMasterData

\* the records the server sends: place may be missing
MasterRecords == [code : {"c1", "c2"}, name : {"n1", "n2"}, place : {"p", Undefined}]

\* [item.code, item.name, item.place || null]
MasterRow(item) ==
    [code |-> item.code, name |-> item.name, place |-> OrText(item.place, NullStr)]

\* saveMasterData(data): withTransactionAsync begins
saveMasterData_Call ==
    /\ master.pc = "idle"
    /\ master.runs < MaxSaves
    /\ \E data \in SeqsUpTo(MasterRecords, MaxMasterRecords) :
          master' = [pc |-> "insert", data |-> data, i |-> 1, before |-> master_data,
                     result |-> "none", runs |-> master.runs + 1]
    /\ UNCHANGED <<appVars, ledgerVars, product_data, cacheVars, batch, merges>>
    /\ UNCHANGED <<sync_info, reset, master_data, download>>

\* INSERT OR REPLACE INTO master_data (code, name, place) VALUES (?, ?, ?)
saveMasterData_Insert ==
    /\ master.pc = "insert"
    /\ master.i <= Len(master.data)
    /\ LET row == MasterRow(master.data[master.i])
       IN  master_data' = {r \in master_data : r.code # row.code} \cup {row}
    /\ master' = [master EXCEPT !.i = master.i + 1]
    /\ UNCHANGED <<appVars, ledgerVars, product_data, cacheVars, batch, merges>>
    /\ UNCHANGED <<sync_info, reset, download>>

\* the loop is over: the transaction commits and saveMasterData returns
saveMasterData_Commit ==
    /\ master.pc = "insert"
    /\ master.i > Len(master.data)
    /\ master' = [master EXCEPT !.pc = "idle", !.result = "saved"]
    /\ UNCHANGED <<appVars, ledgerVars, product_data, cacheVars, batch, merges>>
    /\ UNCHANGED <<sync_info, reset, master_data, download>>

\* a statement throws: the transaction rolls back and the error is thrown on
saveMasterData_Throw ==
    /\ master.pc = "insert"
    /\ master.i <= Len(master.data)
    /\ master_data' = master.before
    /\ master' = [master EXCEPT !.pc = "idle", !.result = "failed"]
    /\ UNCHANGED <<appVars, ledgerVars, product_data, cacheVars, batch, merges>>
    /\ UNCHANGED <<sync_info, reset, download>>

InitMaster == InitLedger({}) /\ token = "jwt"

NextMaster ==
    \/ saveMasterData_Call
    \/ saveMasterData_Insert
    \/ saveMasterData_Commit
    \/ saveMasterData_Throw

SpecMaster == InitMaster /\ [][NextMaster]_vars

\* the last record of data for each of its codes, as rows
RowsOf(data) ==
    {MasterRow(data[i]) : i \in {j \in 1..Len(data) :
                                    \A k \in (j + 1)..Len(data) : data[k].code # data[j].code}}

\* C19: when saveMasterData(data) has completed, master_data holds exactly the
\* records of data, one row for each code, and no row from before the call
\* whose code is not in data
C19_ReplacedWholesale ==
    (master.pc = "idle" /\ master.result = "saved") => master_data = RowsOf(master.data)

(***************************************************************************)
(* DownloadPage.handleDownload and updateLastSynced.                       *)
(***************************************************************************)
MaxDownloads == 2   \* runs of handleDownload

\* what downloadWithRetry resolves with: each list may be missing
DownloadResults ==
    [masterData : {Undefined, "len:0", "len:2"}, productData : {Undefined, "len:0", "len:3"}]

\* INSERT OR REPLACE INTO sync_info (id, last_synced) VALUES (1, ?)
UpdateLastSynced_Append(T, now) ==
    T \cup {[id |-> Cardinality(T) + 1, last_synced |-> now]}

UpdateLastSynced(T, now) ==
    {r \in T : r.id # 1} \cup {[id |-> 1, last_synced |-> now]}

\* updateProgress(progress, step, ...)
updateProgress(t, progress, step) ==
    [t EXCEPT !.downloadProgress = IF progress < 100 THEN progress ELSE 100,
              !.currentStep = step]

\* resetDownloadUIState(): setDownloadProgress(0); setCurrentStep("")
resetDownloadUIState(t) == [t EXCEPT !.downloadProgress = 0, !.currentStep = ""]

\* const progressInterval = setInterval(..., 800)
SetInterval(t, id) == [t EXCEPT !.intervals = @ \cup {id}]

\* clearInterval(progressInterval)
ClearInterval(t, id) == [t EXCEPT !.intervals = @ \ {id}]

\* Math.random() * 10 + 5, in whole points
Increments == {5, 10}

\* the step the interval's callback shows for the progress it sets
StepOf(newProgress, currentStep) ==
    IF newProgress > 30 /\ newProgress <= 50 THEN "Downloading master data..."
    ELSE IF newProgress > 50 /\ newProgress <= 75 THEN "Downloading product data..."
    ELSE IF newProgress > 75 THEN "Processing data..."
    ELSE currentStep

\* the button is pressed: resetDownloadUIState(); setLoading(true)
handleDownload_Call ==
    /\ download.pc = "idle"
    /\ reset = "idle"
    /\ download.runs < MaxDownloads
    /\ download' = [download EXCEPT !.pc = "auth", !.before = sync_info,
                                    !.outcome = "none", !.result = NoDownloadResult,
                                    !.runs = download.runs + 1]
    /\ timer' = resetDownloadUIState(timer)
    /\ UNCHANGED <<notTimer, ledgerVars, product_data, cacheVars, batch, merges>>
    /\ UNCHANGED <<sync_info, reset, master_data, master>>

\* checkAuthBeforeDownload: the token or else the access_token of SecureStore
checkAuthBeforeDownload ==
    /\ download.pc = "auth"
    /\ \E access_token \in {NoToken, "jwt"} :
          LET accessToken == IF token # NoToken THEN token ELSE access_token
          IN  IF accessToken = NoToken
                THEN /\ download' = [download EXCEPT !.pc = "catch", !.outcome = "auth"]
                     /\ timer' = updateProgress(timer, 15, "Checking authentication...")
                ELSE /\ download' = [download EXCEPT !.pc = "prepare"]
                     /\ timer' = updateProgress(timer, 20, "Authentication verified")
    /\ UNCHANGED <<notTimer, ledgerVars, product_data, cacheVars, batch, merges>>
    /\ UNCHANGED <<sync_info, reset, master_data, master>>

\* prepareForDownload: its errors are logged, never thrown; then
\* updateProgress(25, ...) and const progressInterval = setInterval(..., 800)
prepareForDownload ==
    /\ download.pc = "prepare"
    /\ download' = [download EXCEPT !.pc = "download"]
    /\ timer' = SetInterval(updateProgress(timer, 25, "Starting download..."),
                            download.runs)
    /\ UNCHANGED <<notTimer, ledgerVars, product_data, cacheVars, batch, merges>>
    /\ UNCHANGED <<sync_info, reset, master_data, master>>

\* the callback of an interval that was set and not cleared runs:
\* setDownloadProgress(prev => prev < 85 ? Math.min(prev + increment, 85) : prev)
progressInterval_Tick ==
    /\ timer.intervals # {}
    /\ timer.downloadProgress < 85
    /\ \E increment \in Increments :
          LET sum == timer.downloadProgress + increment
              newProgress == IF sum < 85 THEN sum ELSE 85
          IN  timer' = [timer EXCEPT !.downloadProgress = newProgress,
                                     !.currentStep = StepOf(newProgress, @)]
    /\ UNCHANGED <<notTimer, storeVars>>

\* const result = await downloadWithRetry(); clearInterval(progressInterval);
\* updateProgress(90, ...); updateProgress(95, ...)
downloadWithRetry_Resolve ==
    /\ download.pc = "download"
    /\ \E result \in DownloadResults :
          download' = [download EXCEPT !.pc = "stamp", !.outcome = "resolved",
                                       !.result = result]
    /\ timer' = updateProgress(ClearInterval(timer, download.runs), 95,
                               "Updating sync status...")
    /\ UNCHANGED <<notTimer, ledgerVars, product_data, cacheVars, batch, merges>>
    /\ UNCHANGED <<sync_info, reset, master_data, master>>

\* downloadWithRetry rejects: control passes to the catch block
downloadWithRetry_Reject ==
    /\ download.pc = "download"
    /\ download' = [download EXCEPT !.pc = "catch", !.outcome = "rejected"]
    /\ UNCHANGED <<appVars, ledgerVars, product_data, cacheVars, batch, merges>>
    /\ UNCHANGED <<sync_info, reset, master_data, master>>

\* await updateLastSynced(): now = new Date().toISOString()
updateLastSynced ==
    /\ download.pc = "stamp"
    /\ clock' = clock + 1
    /\ sync_info' = UpdateLastSynced(sync_info, clock')
    /\ download' = [download EXCEPT !.pc = "stats"]
    /\ UNCHANGED <<orders_to_sync, nextId, product_data, save, cleanup, flush, token,
                   requests, started, ledger0, captured>>
    /\ UNCHANGED <<appVars, cacheVars, batch, merges, reset, master_data, master>>

\* await loadStats(): lastSynced: lastSyncedResult?.last_synced || null; then
\* updateProgress(100, "Download complete!")
loadStats ==
    /\ download.pc = "stats"
    /\ download' = [download EXCEPT
                       !.pc = "finally",
                       !.lastSynced = {r.last_synced : r \in {x \in sync_info : x.id = 1}}]
    /\ timer' = updateProgress(timer, 100, "Download complete!")
    /\ UNCHANGED <<notTimer, ledgerVars, product_data, cacheVars, batch, merges>>
    /\ UNCHANGED <<sync_info, reset, master_data, master>>

\* catch (error): handleDownloadError(error), which calls resetDownloadUIState()
handleDownloadError ==
    /\ download.pc = "catch"
    /\ download' = [download EXCEPT !.pc = "finally"]
    /\ timer' = resetDownloadUIState(timer)
    /\ UNCHANGED <<notTimer, ledgerVars, product_data, cacheVars, batch, merges>>
    /\ UNCHANGED <<sync_info, reset, master_data, master>>

\* finally: setLoading(false)
handleDownload_Finally ==
    /\ download.pc = "finally"
    /\ download' = [download EXCEPT !.pc = "idle"]
    /\ UNCHANGED <<appVars, ledgerVars, product_data, cacheVars, batch, merges>>
    /\ UNCHANGED <<sync_info, reset, master_data, master>>

InitDownload ==
    /\ InitLedger({})
    /\ token \in {NoToken, "jwt"}

\* runs of handleDownload, and clearAllSyncData between them
NextDownload ==
    \/ handleDownload_Call
    \/ checkAuthBeforeDownload
    \/ prepareForDownload
    \/ downloadWithRetry_Resolve
    \/ downloadWithRetry_Reject
    \/ updateLastSynced
    \/ loadStats
    \/ handleDownloadError
    \/ handleDownload_Finally
    \/ progressInterval_Tick
    \/ (download.pc = "idle" /\ clearAllSyncData_Orders)
    \/ clearAllSyncData_Info

SpecDownload == InitDownload /\ [][NextDownload]_vars

InitSchema ==
    /\ InitStore({})
    /\ token = "jwt"
    /\ columns \in StartColumns
    /\ schema = IdleSchema
    /\ asyncStorage = EmptyAsyncStorage
    /\ secureStore = EmptySecureStore
    /\ startup = [s \in StartupScreens |-> MountedStartup]
    /\ settings = IdleSettings
    /\ licenseScreen = MountedLicenseScreen
    /\ scanner = MountedScanner
    /\ timer = NoTimer

NextSchema ==
    \/ addMissingColumns_Call
    \/ addMissingColumns_TableInfo
    \/ addMissingColumns_Column
    \/ addMissingColumns_Return
    \/ createProductTable

SpecSchema == InitSchema /\ [][NextSchema]_vars

\* a run of addMissingColumns has ended
SchemaReturned == schema.pc = "idle" /\ schema.runs > 0

\* C21: a run of addMissingColumns on an existing table issues one ADD COLUMN
\* for each required column that the table lacked and none for a column it
\* had; no run removes a column; a second run adds nothing
C21_AddsExactlyMissing ==
    SchemaReturned =>
        /\ schema.before # {} =>
              /\ {schema.issued[i] : i \in 1..Len(schema.issued)}
                    = RequiredNames \ schema.before
              /\ Len(schema.issued) = Cardinality(RequiredNames \ schema.before)
              /\ columns = schema.before \cup RequiredNames
        /\ schema.before \subseteq columns
        /\ schema.runs > 1 => schema.issued = <<>> /\ columns = schema.before

\* a table with some of the later columns has been brought up to date
C21_Witness ==
    /\ SchemaReturned
    /\ schema.before # {}
    /\ schema.issued # <<>>
    /\ Len(schema.issued) < Len(requiredColumns)

\* C22: when the product request fails, or a storage error occurs while its
\* response is processed, fetchAllProducts ends with the product list read
\* from product_data by fetchFromDatabase and the data source 'database'
C22_FailureServesCache ==
    [][/\ (fetch.pc = "fallback" /\ fetch'.pc = "done") =>
              /\ dataSource' = "database"
              /\ allProducts' = BagOfRows(product_data)
       /\ saveProductsToDatabase_Rollback => fetch'.pc = "fallback"]_vars

\* the first half of C22 alone: the failed request
C22_FailedRequestServesCache ==
    [][(fetch.pc = "fallback" /\ fetch'.pc = "done") =>
          /\ dataSource' = "database"
          /\ allProducts' = BagOfRows(product_data)]_vars

(***************************************************************************)
(* The startup screens from every content of the stores.                   *)
(***************************************************************************)
InitStartup ==
    /\ InitStore({})
    /\ token \in {NoToken, "jwt"}
    /\ columns = CreatedColumns
    /\ schema = IdleSchema
    /\ asyncStorage \in {[EmptyAsyncStorage EXCEPT !["licenseActivated"] = v] :
                            v \in {NoItem, "true", "false"}}
    /\ secureStore \in {[EmptySecureStore EXCEPT !["paired_ip"] = v] :
                           v \in {NoItem, "192.168.1.5"}}
    /\ startup = [s \in StartupScreens |-> MountedStartup]
    /\ settings = IdleSettings
    /\ licenseScreen = MountedLicenseScreen
    /\ scanner = MountedScanner
    /\ timer = NoTimer

NextStartup ==
    \/ \E s \in StartupScreens : initializeApp_InitDatabase(s)
    \/ \E s \in StartupScreens : initializeApp_InitDatabaseThrows(s)
    \/ initializeApp_License
    \/ \E s \in StartupScreens : initializeApp_Auth(s)
    \/ \E s \in StartupScreens : initializeApp_Catch(s)
    \/ \E s \in StartupScreens : initializeApp_Timeout(s)

\* a promise that can settle settles, and a timer that is set fires
SpecStartup == InitStartup /\ [][NextStartup]_vars /\ WF_vars(NextStartup)

\* C23: on both startup screens a redirect target is eventually set, also
\* when initDatabase throws
C23_EventuallyRedirects ==
    \A s \in StartupScreens : <>(startup[s].redirectTo # NoItem)

\* C23 for the screen with the license check alone
C23_LicenseFirstRedirects == <>(startup["license_first"].redirectTo # NoItem)

(***************************************************************************)
(* Removing the license on an activated, paired device, activating again   *)
(* and starting the app.                                                   *)
(***************************************************************************)
InitRemoval ==
    /\ InitStore({})
    /\ token \in {NoToken, "jwt"}
    /\ columns = CreatedColumns
    /\ schema = IdleSchema
    /\ asyncStorage = ActivatedAsyncStorage
    /\ secureStore \in [SecureKeys -> {NoItem, "item"}]
    /\ startup = [s \in StartupScreens |-> MountedStartup]
    /\ settings = IdleSettings
    /\ licenseScreen = MountedLicenseScreen
    /\ scanner = MountedScanner
    /\ timer = NoTimer

\* the license has been removed and the device activated again
Reactivated == settings.removed /\ asyncStorage["licenseActivated"] = "true"

\* the app is started only after the removal and the new activation; nobody
\* logs in
NextRemoval ==
    \/ confirmRemoveLicense_Call
    \/ \E reply \in LogoutReplies : confirmRemoveLicense_Response(reply)
    \/ confirmRemoveLicense_Clear
    \/ confirmRemoveLicense_DeleteAuth
    \/ handleActivate
    \/ \E s \in StartupScreens : Reactivated /\ initializeApp_InitDatabase(s)
    \/ \E s \in StartupScreens : Reactivated /\ initializeApp_InitDatabaseThrows(s)
    \/ initializeApp_License
    \/ \E s \in StartupScreens : initializeApp_Auth(s)
    \/ \E s \in StartupScreens : initializeApp_Catch(s)
    \/ \E s \in StartupScreens : initializeApp_Timeout(s)

SpecRemoval == InitRemoval /\ [][NextRemoval]_vars

\* C24: once confirmRemoveLicense has succeeded the SecureStore item 'token'
\* is gone, and the startup screen that runs after a new activation, with no
\* login in between, does not redirect to the main screen
C24_RemovalLogsOut ==
    settings.removed =>
        /\ token = NoToken
        /\ startup["license_first"].redirectTo # "/(main)/"

\* C25: every catalog (non-manual) order of an upload request carries as code
\* the code of a product with its barcode, a defined and non-empty value
C25_CatalogOrdersCarryCode ==
    \A n \in 1..Len(requests) : \A i \in 1..Len(requests[n].orders) :
        LET o == requests[n].orders[i]
        IN  o.ioflag = 0 =>
                /\ o.code \notin {Undefined, NullStr, ""}
                /\ \E p \in product_data : p.barcode = o.barcode /\ p.code = o.code

\* C26: getPendingOrders returns every pending row of the ledger exactly once
\* and no synced row, whatever product_data holds
C26_EachPendingRowOnce ==
    [][(flush.pc = "idle" /\ flush'.pc = "token") =>
          LET orders == flush'.orders
          IN  /\ \A r \in Pending(orders_to_sync) :
                    Cardinality({i \in 1..Len(orders) : orders[i].id = r.id}) = 1
              /\ \A i \in 1..Len(orders) : orders[i].sync_status = "pending"]_vars

(***************************************************************************)
(* cleanupDuplicateOrders with captures running between its statements.    *)
(***************************************************************************)
InitInterleave ==
    /\ \E L \in LifecycleLedgers : InitLedger(L)
    /\ token = "jwt"

\* a capture may run at each await of cleanupDuplicateOrders: after the scan,
\* after the UPDATE of a group and after its DELETE
NextInterleave ==
    \/ \E order \in Orders : saveOrderToSync(order)
    \/ cleanupDuplicateOrders_Scan
    \/ cleanupDuplicateOrders_Resume

SpecInterleave == InitInterleave /\ [][NextInterleave]_vars

\* C27: once cleanupDuplicateOrders and the captures that ran between its scan
\* and its UPDATE and DELETE have finished, the pending quantity of every
\* natural key is its pending quantity at start plus the quantity captured
\* for it
C27_MergeConservesCaptured ==
    (cleanup.pc = "idle" /\ NoCallInFlight) =>
        \A k \in Keys :
            SumQty(PendingFor(orders_to_sync, k)) =
                SumQty(PendingFor(ledger0, k)) + captured[k]

(***************************************************************************)
(* The license screen mounted on every content of the license items.       *)
(***************************************************************************)
InitLicenseCheck ==
    /\ InitStore({})
    /\ token = NoToken
    /\ columns = CreatedColumns
    /\ schema = IdleSchema
    /\ asyncStorage \in
          {[EmptyAsyncStorage EXCEPT !["licenseActivated"] = a, !["deviceId"] = d,
                                     !["licenseKey"] = k, !["customerName"] = c] :
             a \in {NoItem, "true"}, d \in {NoItem} \cup DeviceIds,
             k \in {NoItem, "LK-1"}, c \in {NoItem, "Customer"}}
    /\ secureStore = EmptySecureStore
    /\ startup = [s \in StartupScreens |-> MountedStartup]
    /\ settings = IdleSettings
    /\ licenseScreen = MountedLicenseScreen
    /\ scanner = MountedScanner
    /\ timer = NoTimer

NextLicenseCheck ==
    \/ \E id \in DeviceIds : license_initializeApp_Local(id)
    \/ \E outcome \in RegistrationOutcomes : license_initializeApp_Check(outcome)
    \/ license_initializeApp_Store
    \/ license_initializeApp_MultiRemove

SpecLicenseCheck == InitLicenseCheck /\ [][NextLicenseCheck]_vars

\* C28: the startup check of the license screen erases a stored license item
\* only when the server said that the device is not registered; after a
\* network error or a failed response the items stay
C28_ErasedOnlyWhenNotRegistered ==
    [][(\E k \in AsyncKeys : asyncStorage[k] # NoItem /\ asyncStorage'[k] = NoItem)
          => licenseScreen.outcome \in NotRegistered]_vars

(***************************************************************************)
(* The camera scanner under every order of its events.                     *)
(***************************************************************************)
InitScanner == InitLedger({}) /\ token = "jwt"

NextScanner ==
    \/ handleScanBarcode
    \/ \E i \in ScanIds : \E data \in {"A", "B"} : handleBarCodeScanned_Call(i, data)
    \/ \E i \in ScanIds : \E length \in FoundLengths : handleBarCodeScanned_Found(i, length)
    \/ \E i \in ScanIds : handleBarCodeScanned_Alert(i)
    \/ \E i \in ScanIds : handleBarCodeScanned_AlertOk(i)
    \/ scanner_Timeout300
    \/ scanner_Timeout500
    \/ handleCloseScanner

SpecScanner == InitScanner /\ [][NextScanner]_vars

\* C29: at most one scan is between the start of its search and the end of
\* its result handling
C29_OneScanAtATime == Cardinality(InProgress(scanner)) <= 1

\* C30: at most one progress interval is set at a time, and once a run of
\* handleDownload has ended no interval is left and neither downloadProgress
\* nor currentStep changes until the next run begins
C30_TimerStopped ==
    [][/\ Cardinality(timer'.intervals) <= 1
       /\ (download.pc = "idle" /\ download.runs > 0 /\ download'.pc = "idle") =>
             /\ timer.intervals = {}
             /\ timer'.downloadProgress = timer.downloadProgress
             /\ timer'.currentStep = timer.currentStep]_vars

====
